---- MODULE Spec2Model ----
(***************************************************************************)
(* Reliability layer over UDP of RadarQT: ReliableUdpSender and            *)
(* ReliableUdpReceiver (TelemetryReceiver/reliableudp.{h,cpp}).            *)
(*                                                                         *)
(* Conventions of the model                                                *)
(*  - quint32 and int are both 32 bits wide in the program; the model      *)
(*    keeps both at the same, smaller width WordBits, so that wrap-around  *)
(*    is reachable.  U32 and I32 are the two casts.                        *)
(*  - double values are exact rationals <<numerator, denominator>>.        *)
(*  - QDateTime stamps of packets are not modelled; PendingPacket.sentTime *)
(*    is kept as the number of timer periods elapsed since it was set.     *)
(*  - each object lives in one Qt thread: a slot runs to completion, and   *)
(*    one action is one whole slot.                                        *)
(***************************************************************************)
EXTENDS Integers, Sequences, FiniteSets, Bags, TLC

VARIABLES
    rx,         \* the fields of the ReliableUdpReceiver
    tx,         \* the fields of the ReliableUdpSender
    netToRx,    \* datagrams on the wire towards the receiver's port
    netToTx,    \* datagrams on the wire towards the sender's socket
    rxEmitted,  \* signals the receiver emitted during the last slot, in order
    txEmitted,  \* signals the sender emitted during the last slot, in order
    lastOp,     \* name of the slot or method that ran last
    hist        \* history: what has happened so far (read by no operation)

vars == <<rx, tx, netToRx, netToTx, rxEmitted, txEmitted, lastOp, hist>>

----------------------------------------------------------------------------
(* Bounds *)

WordBits == 5        \* width of quint32 and of int in the model
MaxDatagrams == 3    \* datagrams the receiver's socket is handed in one run
MaxBatch == 2        \* datagrams pending when readyRead fires
MaxWireSeq == 2      \* foreign telemetry carries "seq" 0..MaxWireSeq, or an edge value
MaxSends == 2        \* calls of sendTelemetryData in one run
MaxBuffered == 2     \* entries of m_receivedPackets a unit run starts with
MaxGap == 3          \* m_lastValidSequenceNumber - m_expectedSequenceNumber of a unit run
MaxAcksIn == 2       \* datagrams that arrive on the sender's socket in one run
MaxBufferCfg == 2    \* largest value given to setMaxBufferSize

----------------------------------------------------------------------------
(* Machine integers *)

SeqMod == 2 ^ WordBits
IntMin == 0 - 2 ^ (WordBits - 1)
IntMax == 2 ^ (WordBits - 1) - 1
SeqNums == 0 .. (SeqMod - 1)

\* conversion to quint32 (modulo 2^width)
U32(x) == x % SeqMod
\* an int after ++ or + : two's complement wrap-around
I32(x) == ((x - IntMin) % SeqMod) + IntMin

----------------------------------------------------------------------------
(* double as exact rationals *)

RECURSIVE Gcd(_, _)
Gcd(a, b) == IF b = 0 THEN a ELSE Gcd(b, a % b)
Abs(x) == IF x < 0 THEN 0 - x ELSE x
RNorm(n, d) ==
    LET s == IF d < 0 THEN 0 - 1 ELSE 1
        g == Gcd(Abs(n), Abs(d))
    IN  IF n = 0 THEN <<0, 1>> ELSE <<(s * n) \div g, (s * d) \div g>>
R(n) == <<n, 1>>
RAdd(a, b) == RNorm(a[1] * b[2] + b[1] * a[2], a[2] * b[2])
RSub(a, b) == RNorm(a[1] * b[2] - b[1] * a[2], a[2] * b[2])
RMul(a, b) == RNorm(a[1] * b[1], a[2] * b[2])
RDiv(a, b) == RNorm(a[1] * b[2], a[2] * b[1])
RLeq(a, b) == a[1] * b[2] <= b[1] * a[2]

----------------------------------------------------------------------------
(* TelemetryPacket, AckPacket and their JSON documents *)

\* TelemetryPacket() : the default constructor
DefaultPacket ==
    [sequenceNumber |-> 0, latitude |-> R(0), longitude |-> R(0),
     speed |-> R(0), status |-> "", needsAck |-> FALSE]

\* TelemetryPacket::toJson ; static_cast<qint64>(sequenceNumber) keeps the value
TelemetryToJson(p) ==
    [seq |-> p.sequenceNumber, latitude |-> p.latitude, longitude |-> p.longitude,
     speed |-> p.speed, status |-> p.status, needsAck |-> p.needsAck]

\* AckPacket::toJson
AckToJson(sequenceNumber) == [type |-> "ACK", seq |-> sequenceNumber]

\* QJsonValue::toInt : the number if it is representable as int, else the default 0
JsonToInt(v) == IF v >= IntMin /\ v <= IntMax THEN v ELSE 0

\* static_cast<quint32>(obj["seq"].toInt()) ; a missing key reads as Undefined
SeqFromJson(obj) == IF "seq" \in DOMAIN obj THEN U32(JsonToInt(obj.seq)) ELSE 0

\* TelemetryPacket::fromJson
TelemetryFromJson(obj) ==
    [sequenceNumber |-> SeqFromJson(obj),
     latitude  |-> IF "latitude" \in DOMAIN obj THEN obj.latitude ELSE R(0),
     longitude |-> IF "longitude" \in DOMAIN obj THEN obj.longitude ELSE R(0),
     speed     |-> IF "speed" \in DOMAIN obj THEN obj.speed ELSE R(0),
     status    |-> IF "status" \in DOMAIN obj THEN obj.status ELSE "",
     needsAck  |-> IF "needsAck" \in DOMAIN obj THEN obj.needsAck ELSE FALSE]

\* AckPacket::fromJson
AckFromJson(obj) == [sequenceNumber |-> SeqFromJson(obj)]

\* obj.contains("type") && obj["type"].toString() == "ACK"
IsAckDocument(obj) == "type" \in DOMAIN obj /\ obj.type = "ACK"

\* A datagram: bytes that are no JSON, a JSON document that is no object, or a
\* JSON object.  QJsonDocument::object() of a non-object is the empty object.
\* "from" is the peer (address and port) that wrote it.
EmptyObject == [k \in {} |-> 0]
Datagram(kind, obj, from) == [kind |-> kind, obj |-> obj, from |-> from]
ParseFails(d) == d.kind = "garbage"
JsonObjectOf(d) == IF d.kind = "object" THEN d.obj ELSE EmptyObject

----------------------------------------------------------------------------
(* ReliableUdpReceiver *)

SearchSpan == 10     \* the literal 10 of interpolatePacket's two search loops
DefaultMaxBufferSize == 1000
NoSeq == 0 - 1       \* "no such packet" (hasBefore / hasAfter false)

\* the state the constructor leaves
RxInit ==
    [m_expectedSequenceNumber |-> 1,
     m_lastValidSequenceNumber |-> 0,
     m_lastValidPacket |-> DefaultPacket,
     m_receivedPackets |-> EmptyObject,
     m_interpolationEnabled |-> TRUE,
     m_maxBufferSize |-> DefaultMaxBufferSize,
     m_packetsReceived |-> 0,
     m_packetsLost |-> 0,
     m_packetsInterpolated |-> 0,
     m_acksSent |-> 0,
     m_isListening |-> FALSE,
     m_timeoutTimer |-> FALSE,     \* QTimer::isActive
     m_cleanupTimer |-> FALSE,
     m_socketLock |-> "free",      \* QMutex, not recursive
     pc |-> "idle"]                \* "sendAck": the thread waits in sendAck for m_socketLock

TelemetryEvent(p) == [ev |-> "telemetryDataReceived", packet |-> p]
StatisticsEvent == [ev |-> "statisticsUpdated"]
StatusEvent(b) == [ev |-> "connectionStatusChanged", connected |-> b]

\* What a slot works on: the fields, the signals emitted so far, the datagrams
\* written so far, and the packets handed to processReceivedPacket so far.
Ctx(r) == [r |-> r, out |-> <<>>, sent |-> {}, handed |-> <<>>]

\* void ReliableUdpReceiver::updateStatistics()
UpdateStatistics(c) == [c EXCEPT !.out = Append(@, StatisticsEvent)]

\* QMutexLocker on a QMutex that is not recursive: a second lock by the thread
\* that holds it never returns
CanLock(lock) == lock = "free"

\* void ReliableUdpReceiver::sendAck(sequenceNumber, sender, senderPort)
SendAck(c, sequenceNumber, sender, ackOk) ==
    IF ~CanLock(c.r.m_socketLock)
    THEN [c EXCEPT !.r.pc = "sendAck"]
    ELSE IF ackOk
         THEN [c EXCEPT !.r.m_acksSent = I32(@ + 1),
                        !.sent = @ \cup {[to |-> sender,
                                          dgram |-> Datagram("object",
                                                        AckToJson(sequenceNumber),
                                                        "receiver")]}]
         ELSE c

\* a faulty sequence step that counts a packet only when its sequence number is
\* new ; C6 tells it from the code's
ProcessReceivedPacketCountingNew(c, packet) ==
    LET fresh == packet.sequenceNumber >= c.r.m_expectedSequenceNumber
        r1 == IF fresh THEN [c.r EXCEPT !.m_packetsReceived = I32(@ + 1)] ELSE c.r
        r2 == IF packet.sequenceNumber >= r1.m_lastValidSequenceNumber
              THEN [r1 EXCEPT !.m_lastValidSequenceNumber = packet.sequenceNumber,
                              !.m_lastValidPacket = packet]
              ELSE r1
        r3 == IF fresh
              THEN [r2 EXCEPT !.m_expectedSequenceNumber = U32(packet.sequenceNumber + 1)]
              ELSE r2
    IN  UpdateStatistics([c EXCEPT !.r = r3, !.out = Append(@, TelemetryEvent(packet))])

\* a faulty sequence step that keeps a packet from the consumer when its
\* sequence number lies below the expected one ; C22 tells it from the code's
ProcessReceivedPacketInSequenceOnly(c, packet) ==
    LET r1 == [c.r EXCEPT !.m_packetsReceived = I32(@ + 1)]
        r2 == IF packet.sequenceNumber >= r1.m_lastValidSequenceNumber
              THEN [r1 EXCEPT !.m_lastValidSequenceNumber = packet.sequenceNumber,
                              !.m_lastValidPacket = packet]
              ELSE r1
        r3 == IF packet.sequenceNumber >= r2.m_expectedSequenceNumber
              THEN [r2 EXCEPT !.m_expectedSequenceNumber = U32(packet.sequenceNumber + 1)]
              ELSE r2
    IN  UpdateStatistics([c EXCEPT !.r = r3,
                                   !.out = IF packet.sequenceNumber >= c.r.m_expectedSequenceNumber
                                           THEN Append(@, TelemetryEvent(packet))
                                           ELSE @])

\* a faulty sequence step that expects the next number only after the expected
\* one has come ; C33 tells it from the code's
ProcessReceivedPacketExpectingInOrder(c, packet) ==
    LET r1 == [c.r EXCEPT !.m_packetsReceived = I32(@ + 1)]
        r2 == IF packet.sequenceNumber >= r1.m_lastValidSequenceNumber
              THEN [r1 EXCEPT !.m_lastValidSequenceNumber = packet.sequenceNumber,
                              !.m_lastValidPacket = packet]
              ELSE r1
        r3 == IF packet.sequenceNumber = r2.m_expectedSequenceNumber
              THEN [r2 EXCEPT !.m_expectedSequenceNumber = U32(packet.sequenceNumber + 1)]
              ELSE r2
    IN  UpdateStatistics([c EXCEPT !.r = r3, !.out = Append(@, TelemetryEvent(packet))])

\* a faulty sequence step that keeps the first packet of the highest sequence
\* number as the snapshot ; C38 tells it from the code's
ProcessReceivedPacketKeepingFirst(c, packet) ==
    LET r1 == [c.r EXCEPT !.m_packetsReceived = I32(@ + 1)]
        r2 == IF packet.sequenceNumber > r1.m_lastValidSequenceNumber
              THEN [r1 EXCEPT !.m_lastValidSequenceNumber = packet.sequenceNumber,
                              !.m_lastValidPacket = packet]
              ELSE r1
        r3 == IF packet.sequenceNumber >= r2.m_expectedSequenceNumber
              THEN [r2 EXCEPT !.m_expectedSequenceNumber = U32(packet.sequenceNumber + 1)]
              ELSE r2
    IN  UpdateStatistics([c EXCEPT !.r = r3, !.out = Append(@, TelemetryEvent(packet))])

\* void ReliableUdpReceiver::processReceivedPacket(packet)
ProcessReceivedPacket(c, packet) ==
    LET r1 == [c.r EXCEPT !.m_packetsReceived = I32(@ + 1)]
        r2 == IF packet.sequenceNumber >= r1.m_lastValidSequenceNumber
              THEN [r1 EXCEPT !.m_lastValidSequenceNumber = packet.sequenceNumber,
                              !.m_lastValidPacket = packet]
              ELSE r1
        r3 == IF packet.sequenceNumber >= r2.m_expectedSequenceNumber
              THEN [r2 EXCEPT !.m_expectedSequenceNumber = U32(packet.sequenceNumber + 1)]
              ELSE r2
    IN  UpdateStatistics([c EXCEPT !.r = r3, !.out = Append(@, TelemetryEvent(packet))])

\* a faulty loop that gives up the read at the first undecodable datagram ; C17
\* tells it from the code's
RECURSIVE DatagramLoopStoppingAtGarbage(_, _, _)
DatagramLoopStoppingAtGarbage(c, pending, ackOk) ==
    IF pending = <<>> THEN c
    ELSE LET d == Head(pending)
             obj == JsonObjectOf(d)
             packet == TelemetryFromJson(obj)
         IN  IF ParseFails(d) THEN c
             ELSE IF IsAckDocument(obj)
             THEN DatagramLoopStoppingAtGarbage(c, Tail(pending), ackOk)
             ELSE LET c1 == IF packet.needsAck
                            THEN SendAck(c, packet.sequenceNumber, d.from, ackOk)
                            ELSE c
                  IN  IF c1.r.pc # "idle" THEN c1
                      ELSE DatagramLoopStoppingAtGarbage(
                               ProcessReceivedPacket(
                                   [c1 EXCEPT !.handed = Append(@, packet)], packet),
                               Tail(pending), ackOk)

\* a faulty loop without the test for an ACK document ; C29 tells it from the
\* code's
RECURSIVE DatagramLoopWithoutAckTest(_, _, _)
DatagramLoopWithoutAckTest(c, pending, ackOk) ==
    IF pending = <<>> THEN c
    ELSE LET d == Head(pending)
             obj == JsonObjectOf(d)
             packet == TelemetryFromJson(obj)
         IN  IF ParseFails(d) THEN DatagramLoopWithoutAckTest(c, Tail(pending), ackOk)
             ELSE LET c1 == IF packet.needsAck
                            THEN SendAck(c, packet.sequenceNumber, d.from, ackOk)
                            ELSE c
                  IN  IF c1.r.pc # "idle" THEN c1
                      ELSE DatagramLoopWithoutAckTest(
                               ProcessReceivedPacket(
                                   [c1 EXCEPT !.handed = Append(@, packet)], packet),
                               Tail(pending), ackOk)

\* the body of the while loop of processPendingDatagrams, datagram by datagram
RECURSIVE DatagramLoop(_, _, _)
DatagramLoop(c, pending, ackOk) ==
    IF pending = <<>> THEN c
    ELSE LET d == Head(pending)
             obj == JsonObjectOf(d)
             packet == TelemetryFromJson(obj)
         IN  IF ParseFails(d) THEN DatagramLoop(c, Tail(pending), ackOk)
             ELSE IF IsAckDocument(obj) THEN DatagramLoop(c, Tail(pending), ackOk)
             ELSE LET c1 == IF packet.needsAck
                            THEN SendAck(c, packet.sequenceNumber, d.from, ackOk)
                            ELSE c
                  IN  IF c1.r.pc # "idle" THEN c1
                      ELSE DatagramLoop(
                               ProcessReceivedPacket(
                                   [c1 EXCEPT !.handed = Append(@, packet)], packet),
                               Tail(pending), ackOk)

\* the first loop of interpolatePacket: for (i = seq - 1; i > 0 && i > seq - 10; --i)
RECURSIVE FindBefore(_, _, _)
FindBefore(r, sequenceNumber, i) ==
    IF ~(i > 0 /\ i > U32(sequenceNumber - SearchSpan)) THEN NoSeq
    ELSE IF i \in DOMAIN r.m_receivedPackets THEN i
    ELSE FindBefore(r, sequenceNumber, U32(i - 1))

\* the second loop: for (i = seq + 1; i < seq + 10; ++i)
RECURSIVE FindAfter(_, _, _)
FindAfter(r, sequenceNumber, i) ==
    IF ~(i < U32(sequenceNumber + SearchSpan)) THEN NoSeq
    ELSE IF i \in DOMAIN r.m_receivedPackets THEN i
    ELSE FindAfter(r, sequenceNumber, U32(i + 1))

\* before + factor * (after - before)
Lerp(before, after, factor) == RAdd(before, RMul(factor, RSub(after, before)))

\* the part of interpolatePacket after the two searches ; b and a are the keys
\* of beforePacket and afterPacket, or NoSeq
InterpolateBetween(r, sequenceNumber, b, a) ==
    LET hasBefore == b # NoSeq
        hasAfter == a # NoSeq
        beforePacket == r.m_receivedPackets[b]
        afterPacket == r.m_receivedPackets[a]
        factor == RDiv(R(U32(sequenceNumber - beforePacket.sequenceNumber)),
                       R(U32(afterPacket.sequenceNumber - beforePacket.sequenceNumber)))
        src == IF hasBefore THEN beforePacket
               ELSE IF hasAfter THEN afterPacket
               ELSE r.m_lastValidPacket
        interpolated == [DefaultPacket EXCEPT !.sequenceNumber = sequenceNumber,
                                              !.status = "INTERPOLATED"]
    IN  IF hasBefore /\ hasAfter
        THEN [interpolated EXCEPT
                !.latitude = Lerp(beforePacket.latitude, afterPacket.latitude, factor),
                !.longitude = Lerp(beforePacket.longitude, afterPacket.longitude, factor),
                !.speed = Lerp(beforePacket.speed, afterPacket.speed, factor)]
        ELSE [interpolated EXCEPT !.latitude = src.latitude,
                                  !.longitude = src.longitude,
                                  !.speed = src.speed]

\* TelemetryPacket ReliableUdpReceiver::interpolatePacket(sequenceNumber)
InterpolatePacket(r, sequenceNumber) ==
    InterpolateBetween(r, sequenceNumber,
                       FindBefore(r, sequenceNumber, U32(sequenceNumber - 1)),
                       FindAfter(r, sequenceNumber, U32(sequenceNumber + 1)))

\* a faulty gap step that reports seq but leaves m_expectedSequenceNumber where
\* it was ; C4 tells it from the code's
FillGapWithoutAdvance(c, seq) ==
    [c EXCEPT !.r.m_packetsLost = I32(@ + 1),
              !.out = Append(@, TelemetryEvent(
                          [c.r.m_lastValidPacket EXCEPT !.sequenceNumber = seq]))]

\* a faulty gap step that counts the copy of m_lastValidPacket as interpolated
\* too ; C31 tells it from the code's
FillGapCountingCopies(c, seq) ==
    LET r1 == [c.r EXCEPT !.m_packetsLost = I32(@ + 1),
                          !.m_packetsInterpolated = I32(@ + 1),
                          !.m_expectedSequenceNumber = U32(seq + 1)]
    IN  IF r1.m_interpolationEnabled
        THEN [c EXCEPT !.r = r1,
                       !.out = Append(@, TelemetryEvent(InterpolatePacket(r1, seq)))]
        ELSE [c EXCEPT !.r = r1,
                       !.out = Append(@, TelemetryEvent(
                                   [r1.m_lastValidPacket EXCEPT !.sequenceNumber = seq]))]

\* the substitute for one missing sequence number (the body of the if in the loop)
FillGap(c, seq) ==
    LET r1 == [c.r EXCEPT !.m_packetsLost = I32(@ + 1)]
    IN  IF r1.m_interpolationEnabled
        THEN [c EXCEPT !.r = [r1 EXCEPT !.m_packetsInterpolated = I32(@ + 1),
                                        !.m_expectedSequenceNumber = U32(seq + 1)],
                       !.out = Append(@, TelemetryEvent(InterpolatePacket(r1, seq)))]
        ELSE [c EXCEPT !.r = [r1 EXCEPT !.m_expectedSequenceNumber = U32(seq + 1)],
                       !.out = Append(@, TelemetryEvent(
                                   [r1.m_lastValidPacket EXCEPT !.sequenceNumber = seq]))]

\* for (quint32 seq = m_expectedSequenceNumber; seq < m_lastValidSequenceNumber; ++seq)
RECURSIVE GapLoop(_, _)
GapLoop(c, seq) ==
    IF ~(seq < c.r.m_lastValidSequenceNumber) THEN c
    ELSE IF seq \notin DOMAIN c.r.m_receivedPackets
         THEN GapLoop(FillGap(c, seq), U32(seq + 1))
         ELSE GapLoop(c, U32(seq + 1))

\* std::sort(keys.begin(), keys.end())
RECURSIVE SortedKeys(_)
SortedKeys(S) ==
    IF S = {} THEN <<>>
    ELSE LET m == CHOOSE x \in S : \A y \in S : x <= y
         IN  <<m>> \o SortedKeys(S \ {m})

\* a faulty cleanup that drops the largest keys ; C9 tells it from the code's
EvictNewest(buffer, maxBufferSize) ==
    IF Cardinality(DOMAIN buffer) > maxBufferSize
    THEN LET keys == SortedKeys(DOMAIN buffer)
             kept == {keys[i] : i \in 1 .. maxBufferSize}
         IN  [k \in kept |-> buffer[k]]
    ELSE buffer

\* the body of cleanupOldPackets on the buffer
EvictOldest(buffer, maxBufferSize) ==
    IF Cardinality(DOMAIN buffer) > maxBufferSize
    THEN LET keys == SortedKeys(DOMAIN buffer)
             toRemove == Cardinality(DOMAIN buffer) - maxBufferSize
             gone == {keys[i] : i \in 1 .. toRemove}
         IN  [k \in (DOMAIN buffer) \ gone |-> buffer[k]]
    ELSE buffer

\* double ReliableUdpReceiver::getPacketLossRate() const
GetPacketLossRate(r) ==
    LET total == I32(r.m_packetsReceived + r.m_packetsLost)
    IN  IF total > 0
        THEN RMul(RDiv(R(r.m_packetsLost), R(total)), R(100))
        ELSE R(0)

----------------------------------------------------------------------------
(* The receiver's slots and methods as actions *)

HistInit ==
    [datagramsIn |-> 0,     \* datagrams the receiver's socket has handed over
     handed |-> 0,          \* packets handed to processReceivedPacket
     seen |-> {},           \* their sequence numbers
     lost |-> {},           \* sequence numbers a gap check has declared lost
     evicted |-> {},        \* keys cleanupOldPackets has removed
     sends |-> 0,           \* calls of sendTelemetryData
     sentReliably |-> FALSE,\* one of them ran with m_reliabilityEnabled
     acksIn |-> 0,          \* datagrams the sender's socket has handed over
     lastAcks |-> {},       \* "seq" of the ACK documents the sender's slot just read
     pended |-> {},         \* sequence numbers that entered m_pendingAcks
     retxTried |-> EmptyBag,\* sequence numbers retransmitPacket was run for
     retx |-> EmptyBag,     \* "seq" of every datagram retransmitPacket wrote
     acked |-> EmptyBag,    \* ackReceived(seq) emitted so far
     timedOut |-> EmptyBag] \* packetTimeout(seq) emitted so far

SeqsOf(packets) == {packets[i].sequenceNumber : i \in 1 .. Len(packets)}
EmittedPackets(out) ==
    SelectSeq(out, LAMBDA e : e.ev = "telemetryDataReceived")

RxIdle == rx.pc = "idle"

\* what startListening returns: true when already listening, else what bind gave
StartListeningReturns(r, bindOk) == IF r.m_isListening THEN TRUE ELSE bindOk

\* a faulty start that reports the connection again when it is already
\* listening ; C32 tells it from the code's
StartListeningReportingAgain(bindOk) ==
    /\ rx.pc = "idle"
    /\ IF rx.m_isListening \/ bindOk
       THEN /\ rx' = [rx EXCEPT !.m_isListening = TRUE,
                                !.m_timeoutTimer = TRUE,
                                !.m_cleanupTimer = TRUE]
            /\ rxEmitted' = <<[ev |-> "connectionStatusChanged", connected |-> TRUE]>>
       ELSE /\ rx' = rx
            /\ rxEmitted' = <<>>
    /\ lastOp' = "startListening"
    /\ UNCHANGED <<tx, netToRx, netToTx, txEmitted, hist>>

\* a faulty start that arms m_timeoutTimer before it knows that bind succeeded ;
\* C21 tells it from the code's
StartListeningArmingEarly(bindOk) ==
    /\ rx.pc = "idle"
    /\ IF rx.m_isListening
       THEN /\ rx' = rx
            /\ rxEmitted' = <<>>
       ELSE IF bindOk
            THEN /\ rx' = [rx EXCEPT !.m_isListening = TRUE,
                                     !.m_timeoutTimer = TRUE,
                                     !.m_cleanupTimer = TRUE]
                 /\ rxEmitted' = <<[ev |-> "connectionStatusChanged", connected |-> TRUE]>>
            ELSE /\ rx' = [rx EXCEPT !.m_timeoutTimer = TRUE]
                 /\ rxEmitted' = <<>>
    /\ lastOp' = "startListening"
    /\ UNCHANGED <<tx, netToRx, netToTx, txEmitted, hist>>

\* bool ReliableUdpReceiver::startListening(port) ; bindOk: QUdpSocket::bind succeeded
StartListening(bindOk) ==
    /\ RxIdle
    /\ IF rx.m_isListening
       THEN /\ rx' = rx
            /\ rxEmitted' = <<>>
       ELSE IF bindOk
            THEN /\ rx' = [rx EXCEPT !.m_isListening = TRUE,
                                     !.m_timeoutTimer = TRUE,
                                     !.m_cleanupTimer = TRUE]
                 /\ rxEmitted' = <<StatusEvent(TRUE)>>
            ELSE /\ rx' = rx
                 /\ rxEmitted' = <<>>
    /\ lastOp' = "startListening"
    /\ UNCHANGED <<tx, netToRx, netToTx, txEmitted, hist>>

\* a faulty stop that leaves m_timeoutTimer running ; C11 tells it from the code's
StopListeningTimerLeft ==
    /\ RxIdle
    /\ IF rx.m_isListening
       THEN /\ rx' = [rx EXCEPT !.m_isListening = FALSE,
                                !.m_cleanupTimer = FALSE]
            /\ rxEmitted' = <<StatusEvent(FALSE)>>
       ELSE /\ rx' = rx
            /\ rxEmitted' = <<>>
    /\ lastOp' = "stopListening"
    /\ UNCHANGED <<tx, netToRx, netToTx, txEmitted, hist>>

\* void ReliableUdpReceiver::stopListening()
StopListening ==
    /\ RxIdle
    /\ IF rx.m_isListening
       THEN /\ rx' = [rx EXCEPT !.m_isListening = FALSE,
                                !.m_timeoutTimer = FALSE,
                                !.m_cleanupTimer = FALSE]
            /\ rxEmitted' = <<StatusEvent(FALSE)>>
       ELSE /\ rx' = rx
            /\ rxEmitted' = <<>>
    /\ lastOp' = "stopListening"
    /\ UNCHANGED <<tx, netToRx, netToTx, txEmitted, hist>>

\* the end of processPendingDatagrams: the lock is released unless the thread
\* still waits inside the loop
ReadDone(c, n) ==
    /\ rx' = IF c.r.pc = "idle" THEN [c.r EXCEPT !.m_socketLock = "free"] ELSE c.r
    /\ rxEmitted' = c.out
    /\ netToTx' = netToTx \cup {s.dgram : s \in {x \in c.sent : x.to = "sender"}}
    /\ hist' = [hist EXCEPT !.datagramsIn = @ + n,
                            !.handed = @ + Len(c.handed),
                            !.seen = @ \cup SeqsOf(c.handed)]

\* the end of checkForMissingPackets
GapCheckDone(c) ==
    /\ rx' = c.r
    /\ rxEmitted' = c.out
    /\ hist' = [hist EXCEPT !.lost = @ \cup SeqsOf([i \in 1 .. (Len(c.out) - 1) |->
                                                        c.out[i].packet])]

\* void ReliableUdpReceiver::processPendingDatagrams(), run on readyRead with
\* `pending` waiting in the socket.  The slot holds m_socketLock throughout.
ProcessPendingDatagrams(pending, ackOk) ==
    /\ RxIdle
    /\ rx.m_isListening
    /\ CanLock(rx.m_socketLock)
    /\ ReadDone(DatagramLoop(Ctx([rx EXCEPT !.m_socketLock = "held"]), pending, ackOk),
                Len(pending))
    /\ lastOp' = "processPendingDatagrams"
    /\ UNCHANGED <<tx, txEmitted>>

\* every order in which up to MaxBatch of the datagrams in S can be pending
RECURSIVE BatchesOf(_, _)
BatchesOf(S, n) ==
    IF n = 0 THEN {<<>>}
    ELSE {<<>>} \cup UNION {{<<d>> \o b : b \in BatchesOf(S \ {d}, n - 1)} : d \in S}
Batches(S) == BatchesOf(S, MaxBatch) \ {<<>>}
Range(q) == {q[i] : i \in 1 .. Len(q)}

\* void ReliableUdpReceiver::checkForMissingPackets(), run by m_timeoutTimer
CheckForMissingPackets ==
    /\ RxIdle
    /\ rx.m_timeoutTimer
    /\ GapCheckDone(UpdateStatistics(GapLoop(Ctx(rx), rx.m_expectedSequenceNumber)))
    /\ lastOp' = "checkForMissingPackets"
    /\ UNCHANGED <<tx, netToRx, netToTx, txEmitted>>

\* void ReliableUdpReceiver::cleanupOldPackets(), run by m_cleanupTimer
CleanupOldPackets ==
    /\ RxIdle
    /\ rx.m_cleanupTimer
    /\ rx' = [rx EXCEPT !.m_receivedPackets = EvictOldest(@, rx.m_maxBufferSize)]
    /\ rxEmitted' = <<>>
    /\ lastOp' = "cleanupOldPackets"
    /\ hist' = [hist EXCEPT !.evicted = @ \cup ((DOMAIN rx.m_receivedPackets) \
                                                  (DOMAIN rx'.m_receivedPackets))]
    /\ UNCHANGED <<tx, netToRx, netToTx, txEmitted>>

\* void setInterpolationEnabled(bool enabled)
SetInterpolationEnabled(enabled) ==
    /\ RxIdle
    /\ rx' = [rx EXCEPT !.m_interpolationEnabled = enabled]
    /\ rxEmitted' = <<>>
    /\ lastOp' = "setInterpolationEnabled"
    /\ UNCHANGED <<tx, netToRx, netToTx, txEmitted, hist>>

\* void setMaxBufferSize(int size)
SetMaxBufferSize(size) ==
    /\ RxIdle
    /\ rx' = [rx EXCEPT !.m_maxBufferSize = size]
    /\ rxEmitted' = <<>>
    /\ lastOp' = "setMaxBufferSize"
    /\ UNCHANGED <<tx, netToRx, netToTx, txEmitted, hist>>

----------------------------------------------------------------------------
(* ReliableUdpSender *)

MaxRetransmissions == 3   \* m_maxRetransmissions
AckTimeoutPeriods == 3    \* m_ackTimeoutMs (3000) in periods of m_timeoutTimer (1000)

\* the three activities of a sender that take its locks
Activities == {"sendTelemetryData", "processIncomingAcks", "checkForTimeouts"}

TxInit ==
    [m_nextSequenceNumber |-> 1,
     m_pendingAcks |-> EmptyObject,   \* seq -> [packet, sentAge, retransmissionCount]
     m_reliabilityEnabled |-> TRUE,
     m_packetsSent |-> 0,
     m_acksReceived |-> 0,
     m_retransmissions |-> 0,
     m_pendingLock |-> "free",        \* "free" or the activity that holds it
     m_socketLock |-> "free",
     at |-> [a \in Activities |-> "idle"],   \* the statement each activity is at
     todo |-> [a \in Activities |-> 0]]      \* iterations left in its loop

AckEvent(n) == [ev |-> "ackReceived", sequenceNumber |-> n]
TimeoutEvent(n) == [ev |-> "packetTimeout", sequenceNumber |-> n]

\* QHash: insert or overwrite, and remove
HashPut(h, k, v) == (k :> v) @@ h
HashRemove(h, k) == [x \in (DOMAIN h) \ {k} |-> h[x]]

\* the packet sendTelemetryData stamps
StampedPacket(t, packet) ==
    [packet EXCEPT !.sequenceNumber = t.m_nextSequenceNumber,
                   !.needsAck = t.m_reliabilityEnabled]

\* a faulty send that tracks the packet even when writeDatagram failed ; C13
\* tells it from the code's
SendTelemetryDataTrackingAll(c, packet, sendOk) ==
    LET sendPacket == StampedPacket(c.r, packet)
        t1 == [c.r EXCEPT !.m_nextSequenceNumber = U32(@ + 1),
                          !.m_packetsSent = IF sendOk THEN I32(@ + 1) ELSE @]
        t2 == IF t1.m_reliabilityEnabled
              THEN [t1 EXCEPT !.m_pendingAcks =
                       HashPut(@, sendPacket.sequenceNumber,
                               [packet |-> sendPacket, sentAge |-> 0,
                                retransmissionCount |-> 0])]
              ELSE t1
    IN  [c EXCEPT !.r = t2,
                  !.sent = IF sendOk
                           THEN @ \cup {Datagram("object", TelemetryToJson(sendPacket),
                                                 "sender")}
                           ELSE @,
                  !.out = Append(@, StatisticsEvent)]

\* a faulty send that tracks every packet it wrote, reliability enabled or not ;
\* C28 tells it from the code's
SendTelemetryDataAlwaysPending(c, packet, sendOk) ==
    LET sendPacket == StampedPacket(c.r, packet)
        t1 == [c.r EXCEPT !.m_nextSequenceNumber = U32(@ + 1)]
        dgram == Datagram("object", TelemetryToJson(sendPacket), "sender")
    IN  IF ~sendOk THEN [c EXCEPT !.r = t1]
        ELSE LET t2 == [t1 EXCEPT !.m_packetsSent = I32(@ + 1)]
                 t3 == [t2 EXCEPT !.m_pendingAcks =
                                HashPut(@, sendPacket.sequenceNumber,
                                        [packet |-> sendPacket, sentAge |-> 0,
                                         retransmissionCount |-> 0])]
             IN  [c EXCEPT !.r = t3, !.sent = @ \cup {dgram},
                           !.out = Append(@, StatisticsEvent)]

\* void ReliableUdpSender::sendTelemetryData(packet) ; sendOk: writeDatagram != -1
SendTelemetryDataBody(c, packet, sendOk) ==
    LET sendPacket == StampedPacket(c.r, packet)
        t1 == [c.r EXCEPT !.m_nextSequenceNumber = U32(@ + 1)]
        dgram == Datagram("object", TelemetryToJson(sendPacket), "sender")
    IN  IF ~sendOk THEN [c EXCEPT !.r = t1]
        ELSE LET t2 == [t1 EXCEPT !.m_packetsSent = I32(@ + 1)]
                 t3 == IF t2.m_reliabilityEnabled
                       THEN [t2 EXCEPT !.m_pendingAcks =
                                HashPut(@, sendPacket.sequenceNumber,
                                        [packet |-> sendPacket, sentAge |-> 0,
                                         retransmissionCount |-> 0])]
                       ELSE t2
             IN  [c EXCEPT !.r = t3, !.sent = @ \cup {dgram},
                           !.out = Append(@, StatisticsEvent)]

\* a faulty loop that reports every ACK it reads, pending or not ; C15 tells it
\* from the code's
RECURSIVE AckLoopReportingAll(_, _)
AckLoopReportingAll(c, pending) ==
    IF pending = <<>> THEN c
    ELSE LET d == Head(pending)
             obj == JsonObjectOf(d)
             ack == AckFromJson(obj)
         IN  IF ParseFails(d) \/ ~IsAckDocument(obj)
             THEN AckLoopReportingAll(c, Tail(pending))
             ELSE AckLoopReportingAll([c EXCEPT
                      !.r.m_pendingAcks = HashRemove(@, ack.sequenceNumber),
                      !.r.m_acksReceived = I32(@ + 1),
                      !.out = Append(@, AckEvent(ack.sequenceNumber))],
                      Tail(pending))

\* a faulty loop that takes an ACK as acknowledging every number up to its own ;
\* C14 tells it from the code's
RECURSIVE AckLoopCumulative(_, _)
AckLoopCumulative(c, pending) ==
    IF pending = <<>> THEN c
    ELSE LET d == Head(pending)
             obj == JsonObjectOf(d)
             ack == AckFromJson(obj)
             kept == {k \in DOMAIN c.r.m_pendingAcks : k > ack.sequenceNumber}
         IN  IF ParseFails(d) \/ ~IsAckDocument(obj)
             THEN AckLoopCumulative(c, Tail(pending))
             ELSE IF ack.sequenceNumber \in DOMAIN c.r.m_pendingAcks
                  THEN AckLoopCumulative([c EXCEPT
                           !.r.m_pendingAcks = [k \in kept |-> c.r.m_pendingAcks[k]],
                           !.r.m_acksReceived = I32(@ + 1),
                           !.out = Append(@, AckEvent(ack.sequenceNumber))],
                           Tail(pending))
                  ELSE AckLoopCumulative(c, Tail(pending))

\* the while loop of processIncomingAcks, datagram by datagram
RECURSIVE AckLoop(_, _)
AckLoop(c, pending) ==
    IF pending = <<>> THEN c
    ELSE LET d == Head(pending)
             obj == JsonObjectOf(d)
             ack == AckFromJson(obj)
         IN  IF ParseFails(d) \/ ~IsAckDocument(obj) THEN AckLoop(c, Tail(pending))
             ELSE IF ack.sequenceNumber \in DOMAIN c.r.m_pendingAcks
                  THEN AckLoop([c EXCEPT
                                   !.r.m_pendingAcks = HashRemove(@, ack.sequenceNumber),
                                   !.r.m_acksReceived = I32(@ + 1),
                                   !.out = Append(@, AckEvent(ack.sequenceNumber))],
                               Tail(pending))
                  ELSE AckLoop(c, Tail(pending))

\* a faulty retransmission that spends an attempt only when the datagram was
\* written ; C37 tells it from the code's
RetransmitPacketCountingSuccess(c, sequenceNumber, sendOk) ==
    IF sequenceNumber \notin DOMAIN c.r.m_pendingAcks THEN c
    ELSE LET pend == c.r.m_pendingAcks[sequenceNumber]
             dgram == Datagram("object", TelemetryToJson(pend.packet), "sender")
             t1 == [c.r EXCEPT !.m_pendingAcks[sequenceNumber] =
                        [pend EXCEPT !.retransmissionCount = IF sendOk THEN @ + 1 ELSE @,
                                     !.sentAge = 0]]
         IN  [c EXCEPT !.r = IF sendOk
                             THEN [t1 EXCEPT !.m_retransmissions = I32(@ + 1)]
                             ELSE t1,
                       !.sent = IF sendOk THEN @ \cup {dgram} ELSE @,
                       !.handed = Append(@, [packet |-> pend.packet, ok |-> sendOk]),
                       !.out = Append(@, StatisticsEvent)]

\* void ReliableUdpSender::retransmitPacket(sequenceNumber)
RetransmitPacket(c, sequenceNumber, sendOk) ==
    IF sequenceNumber \notin DOMAIN c.r.m_pendingAcks THEN c
    ELSE LET pend == c.r.m_pendingAcks[sequenceNumber]
             dgram == Datagram("object", TelemetryToJson(pend.packet), "sender")
             t1 == [c.r EXCEPT !.m_pendingAcks[sequenceNumber] =
                        [pend EXCEPT !.retransmissionCount = @ + 1, !.sentAge = 0]]
         IN  [c EXCEPT !.r = IF sendOk
                             THEN [t1 EXCEPT !.m_retransmissions = I32(@ + 1)]
                             ELSE t1,
                       !.sent = IF sendOk THEN @ \cup {dgram} ELSE @,
                       !.handed = Append(@, [packet |-> pend.packet, ok |-> sendOk]),
                       !.out = Append(@, StatisticsEvent)]

\* it.value().sentTime < cutoffTime
TimedOut(pend) == pend.sentAge > AckTimeoutPeriods

\* a faulty retry test, one attempt too generous ; C2 tells it from the code's
MayRetransmitOnceMore(pend) == pend.retransmissionCount <= MaxRetransmissions

\* pending.retransmissionCount < m_maxRetransmissions
MayRetransmit(pend) == pend.retransmissionCount < MaxRetransmissions

\* a faulty loop that reports the timeout and leaves the entry pending ; C34
\* tells it from the code's
RECURSIVE TimeoutLoopKeepingEntry(_, _, _)
TimeoutLoopKeepingEntry(c, timedOutPackets, sendOk) ==
    IF timedOutPackets = <<>> THEN c
    ELSE LET seq == Head(timedOutPackets)
         IN  IF MayRetransmit(c.r.m_pendingAcks[seq])
             THEN TimeoutLoopKeepingEntry(RetransmitPacket(c, seq, sendOk[seq]),
                                          Tail(timedOutPackets), sendOk)
             ELSE TimeoutLoopKeepingEntry([c EXCEPT !.out = Append(@, TimeoutEvent(seq))],
                                          Tail(timedOutPackets), sendOk)

\* the second loop of checkForTimeouts over timedOutPackets
RECURSIVE TimeoutLoop(_, _, _)
TimeoutLoop(c, timedOutPackets, sendOk) ==
    IF timedOutPackets = <<>> THEN c
    ELSE LET seq == Head(timedOutPackets)
         IN  IF MayRetransmit(c.r.m_pendingAcks[seq])
             THEN TimeoutLoop(RetransmitPacket(c, seq, sendOk[seq]),
                              Tail(timedOutPackets), sendOk)
             ELSE TimeoutLoop([c EXCEPT !.r.m_pendingAcks = HashRemove(@, seq),
                                        !.out = Append(@, TimeoutEvent(seq))],
                              Tail(timedOutPackets), sendOk)

\* one more period of m_timeoutTimer has passed
Aged(pendingAcks) ==
    [k \in DOMAIN pendingAcks |-> [pendingAcks[k] EXCEPT !.sentAge = @ + 1]]

EventBag(out, name) ==
    LET hits == SelectSeq(out, LAMBDA e : e.ev = name)
        ks == {hits[i].sequenceNumber : i \in 1 .. Len(hits)}
    IN  [k \in ks |-> Cardinality({i \in 1 .. Len(hits) : hits[i].sequenceNumber = k})]

\* the "seq" members of the datagrams written for the logged retransmissions
WireSeqBag(log) ==
    LET ks == {TelemetryToJson(log[i].packet).seq : i \in 1 .. Len(log)}
    IN  [k \in ks |-> Cardinality({i \in 1 .. Len(log) :
                                      TelemetryToJson(log[i].packet).seq = k})]

TxDone(c, op) ==
    /\ tx' = c.r
    /\ txEmitted' = c.out
    /\ netToRx' = netToRx \cup c.sent
    /\ lastOp' = op
    /\ UNCHANGED <<rx, rxEmitted>>

\* sendTelemetryData as an action
SendTelemetryData(packet, sendOk) ==
    /\ hist.sends < MaxSends
    /\ TxDone(SendTelemetryDataBody(Ctx(tx), packet, sendOk), "sendTelemetryData")
    /\ hist' = [hist EXCEPT !.sends = @ + 1,
                            !.sentReliably = @ \/ tx.m_reliabilityEnabled,
                            !.lastAcks = {},
                            !.pended = @ \cup ((DOMAIN tx'.m_pendingAcks) \
                                                (DOMAIN tx.m_pendingAcks))]
    /\ UNCHANGED netToTx

\* the "seq" members of the ACK documents among the datagrams `pending`
AckSeqsOnWire(pending) ==
    {pending[i].obj.seq : i \in {j \in 1 .. Len(pending) :
        /\ pending[j].kind = "object"
        /\ "type" \in DOMAIN pending[j].obj
        /\ pending[j].obj.type = "ACK"
        /\ "seq" \in DOMAIN pending[j].obj}}

\* void ReliableUdpSender::processIncomingAcks(), run on readyRead with `pending`
\* waiting in the sender's socket
ProcessIncomingAcks(pending) ==
    LET c == AckLoop(Ctx(tx), pending)
        done == [c EXCEPT !.out = Append(@, StatisticsEvent)]
    IN  /\ TxDone(done, "processIncomingAcks")
        /\ hist' = [hist EXCEPT !.acked = @ (+) EventBag(c.out, "ackReceived"),
                                !.acksIn = @ + Len(pending),
                                !.lastAcks = AckSeqsOnWire(pending)]

\* void ReliableUdpSender::checkForTimeouts(), run by m_timeoutTimer ;
\* sendOk[seq]: the writeDatagram of the retransmission of seq succeeded ;
\* timedOutPackets: the expired keys in the order the QHash iteration met them
TimeoutsDone(c) ==
    /\ TxDone(c, "checkForTimeouts")
    /\ hist' = [hist EXCEPT
           !.retx = @ (+) WireSeqBag(SelectSeq(c.handed, LAMBDA h : h.ok)),
           !.retxTried = @ (+) WireSeqBag(c.handed),
           !.lastAcks = {},
           !.timedOut = @ (+) EventBag(c.out, "packetTimeout")]
    /\ UNCHANGED netToTx

\* the entries the first loop of checkForTimeouts collects
TimedOutKeys(t) ==
    {k \in DOMAIN t.m_pendingAcks : TimedOut(t.m_pendingAcks[k])}

CheckForTimeouts(sendOk, timedOutPackets) ==
    TimeoutsDone(TimeoutLoop(Ctx([tx EXCEPT !.m_pendingAcks = Aged(@)]),
                             timedOutPackets, sendOk))

\* void setReliabilityEnabled(bool enabled)
SetReliabilityEnabled(enabled) ==
    /\ tx' = [tx EXCEPT !.m_reliabilityEnabled = enabled]
    /\ txEmitted' = <<>>
    /\ lastOp' = "setReliabilityEnabled"
    /\ UNCHANGED <<rx, rxEmitted, netToRx, netToTx, hist>>

----------------------------------------------------------------------------
(* Inputs *)

Positions ==
    {[latitude |-> R(10), longitude |-> R(20), speed |-> R(30)],
     [latitude |-> R(14), longitude |-> R(28), speed |-> R(42)]}

\* what the application gives sendTelemetryData
SendPackets ==
    {[DefaultPacket EXCEPT !.latitude = q.latitude, !.longitude = q.longitude,
                           !.speed = q.speed, !.status = "OK"] : q \in Positions}

\* "seq" values of telemetry documents of other origin: small ones, the first
\* value that is no int, and the one whose cast gives the largest quint32
WireSeqs == (0 .. MaxWireSeq) \cup {IntMax + 1, 0 - 1}

ForeignTelemetry ==
    {Datagram("object",
              [seq |-> v, latitude |-> q.latitude, longitude |-> q.longitude,
               speed |-> q.speed, status |-> "OK", needsAck |-> FALSE], "foreign") :
        v \in WireSeqs, q \in Positions}

\* telemetry of other origin that asks for an acknowledgment
ForeignNeedsAck ==
    {Datagram("object",
              [seq |-> 1, latitude |-> R(10), longitude |-> R(20),
               speed |-> R(30), status |-> "OK", needsAck |-> TRUE], "foreign")}

ForeignOther ==
    {Datagram("garbage", EmptyObject, "foreign"),
     Datagram("array", EmptyObject, "foreign"),
     Datagram("object", [latitude |-> R(14)], "foreign"),
     Datagram("object", AckToJson(1), "foreign")}

ForeignDatagrams == ForeignTelemetry \cup ForeignNeedsAck \cup ForeignOther
ForeignBatches == Batches(ForeignDatagrams)
ForeignBatchesUpTo == [n \in 0 .. MaxBatch |-> {b \in ForeignBatches : Len(b) <= n}]
Min(a, b) == IF a < b THEN a ELSE b

\* the outcomes of the writeDatagram calls of sendAck that matter for `pending`
AckOutcomes(pending) ==
    IF \E i \in 1 .. Len(pending) :
          ~ParseFails(pending[i]) /\ TelemetryFromJson(JsonObjectOf(pending[i])).needsAck
    THEN BOOLEAN ELSE {TRUE}

----------------------------------------------------------------------------
(* The system: one sender, one receiver, and the network between them *)

Init ==
    /\ rx = RxInit
    /\ tx = TxInit
    /\ netToRx = {}
    /\ netToTx = {}
    /\ rxEmitted = <<>>
    /\ txEmitted = <<>>
    /\ lastOp = "constructor"
    /\ hist = HistInit

Send == \E packet \in SendPackets, sendOk \in BOOLEAN : SendTelemetryData(packet, sendOk)

SetReliability == \E enabled \in BOOLEAN : SetReliabilityEnabled(enabled)

\* every order in which a QHash iteration can meet the keys S
Orders(S) == {q \in BatchesOf(S, Cardinality(S)) : Len(q) = Cardinality(S)}

TimeoutTimer ==
    \E sendOk \in [DOMAIN tx.m_pendingAcks -> BOOLEAN] :
        \E timedOutPackets \in Orders(TimedOutKeys([tx EXCEPT !.m_pendingAcks = Aged(@)])) :
            CheckForTimeouts(sendOk, timedOutPackets)

\* readyRead of the sender's socket
TxReadyRead ==
    \E pending \in Batches(netToTx) :
        /\ ProcessIncomingAcks(pending)
        /\ netToTx' = netToTx \ Range(pending)

\* readyRead of the receiver's socket
RxReadyRead ==
    \E pending \in Batches(netToRx) : \E ackOk \in AckOutcomes(pending) :
        /\ ProcessPendingDatagrams(pending, ackOk)
        /\ netToRx' = netToRx \ Range(pending)

\* the network drops a datagram (or delivers it to a closed port)
Lose ==
    \/ \E d \in netToRx :
          /\ netToRx' = netToRx \ {d}
          /\ lastOp' = "lose"
          /\ UNCHANGED <<rx, tx, netToTx, rxEmitted, txEmitted, hist>>
    \/ \E d \in netToTx :
          /\ netToTx' = netToTx \ {d}
          /\ lastOp' = "lose"
          /\ UNCHANGED <<rx, tx, netToRx, rxEmitted, txEmitted, hist>>

Start == \E bindOk \in BOOLEAN : StartListening(bindOk)

SetInterpolation == \E enabled \in BOOLEAN : SetInterpolationEnabled(enabled)

Next ==
    \/ Send
    \/ SetReliability
    \/ TimeoutTimer
    \/ TxReadyRead
    \/ RxReadyRead
    \/ Lose
    \/ Start
    \/ StopListening
    \/ CheckForMissingPackets
    \/ CleanupOldPackets
    \/ SetInterpolation

Spec == Init /\ [][Next]_vars

----------------------------------------------------------------------------
(* Sender and receiver over a transport that loses nothing: every writeDatagram
   succeeds, every datagram stays queued at its destination until that side's
   readyRead slot takes it, the receiver is listening from the start, and the
   sender's timer only fires once nothing is left for a running receiver to
   read.  processIncomingAcks is not among the steps: it runs on readyRead of
   the sender's socket, and in this run no datagram is ever addressed to it
   (PerfectRunSendsNoAck). *)

AllOk(S) == [k \in S |-> TRUE]

InitPerfect ==
    /\ rx = [RxInit EXCEPT !.m_isListening = TRUE,
                           !.m_timeoutTimer = TRUE,
                           !.m_cleanupTimer = TRUE]
    /\ tx = TxInit
    /\ netToRx = {}
    /\ netToTx = {}
    /\ rxEmitted = <<StatusEvent(TRUE)>>
    /\ txEmitted = <<>>
    /\ lastOp = "startListening"
    /\ hist = HistInit

PerfectSend == \E packet \in SendPackets : SendTelemetryData(packet, TRUE)

PerfectRxReadyRead ==
    \E pending \in Batches(netToRx) :
        /\ ProcessPendingDatagrams(pending, TRUE)
        /\ netToRx' = netToRx \ Range(pending)

PerfectTimeoutTimer ==
    /\ netToRx = {} \/ ~RxIdle
    /\ netToTx = {}
    /\ \E timedOutPackets \in Orders(TimedOutKeys([tx EXCEPT !.m_pendingAcks = Aged(@)])) :
          CheckForTimeouts(AllOk(DOMAIN tx.m_pendingAcks), timedOutPackets)

NextPerfect ==
    \/ PerfectSend
    \/ PerfectRxReadyRead
    \/ PerfectTimeoutTimer

SpecPerfect == InitPerfect /\ [][NextPerfect]_vars

PerfectRunSendsNoAck == netToTx = {} /\ rx.m_acksSent = 0

----------------------------------------------------------------------------
(* The sender when no ACK reaches it: the transport accepts every retransmitted
   datagram, and nothing arrives on the sender's socket *)

\* the application reports the k-th sample of a moving position
SampleAt(k) ==
    [DefaultPacket EXCEPT !.latitude = R(10 + 4 * k), !.longitude = R(20 + 8 * k),
                          !.speed = R(30 + 12 * k), !.status = "OK"]

NoAckSend == \E sendOk \in BOOLEAN : SendTelemetryData(SampleAt(hist.sends), sendOk)

NoAckTimeoutTimer ==
    \E timedOutPackets \in Orders(TimedOutKeys([tx EXCEPT !.m_pendingAcks = Aged(@)])) :
        CheckForTimeouts(AllOk(DOMAIN tx.m_pendingAcks), timedOutPackets)

NextNoAck ==
    \/ NoAckSend
    \/ SetReliability
    \/ NoAckTimeoutTimer

\* m_timeoutTimer runs from the constructor until the sender is destroyed
SpecNoAck == Init /\ [][NextNoAck]_vars /\ WF_vars(NoAckTimeoutTimer)

----------------------------------------------------------------------------
(* A session: the sender's packets travel to a receiver that is started and
   stopped while they are under way.  A datagram written while the receiver's
   port is closed, or queued when it closes, stays in netToRx until it is
   dropped or read after a restart. *)

SessionSend == \E sendOk \in BOOLEAN : SendTelemetryData(SampleAt(hist.sends), sendOk)

\* the network, or a closed port, drops a datagram addressed to the receiver
Drop ==
    \E d \in netToRx :
        /\ netToRx' = netToRx \ {d}
        /\ lastOp' = "lose"
        /\ UNCHANGED <<rx, tx, netToTx, rxEmitted, txEmitted, hist>>

NextSession ==
    \/ SessionSend
    \/ SetReliability
    \/ RxReadyRead
    \/ Drop
    \/ Start
    \/ StopListening
    \/ CheckForMissingPackets
    \/ CleanupOldPackets

SpecSession == Init /\ [][NextSession]_vars

----------------------------------------------------------------------------
(* The sender late in a session: m_nextSequenceNumber = n after U32(n - 1)
   earlier calls of sendTelemetryData, taken here to be calls the transport
   rejected, so that nothing is pending and nothing was counted *)

InitSeq ==
    /\ \E n \in SeqNums : tx = [TxInit EXCEPT !.m_nextSequenceNumber = n]
    /\ rx = RxInit
    /\ netToRx = {}
    /\ netToTx = {}
    /\ rxEmitted = <<>>
    /\ txEmitted = <<>>
    /\ lastOp = "sendTelemetryData"
    /\ hist = HistInit

NextSeq ==
    \/ Send
    \/ SetReliability

SpecSeq == InitSeq /\ [][NextSeq]_vars

----------------------------------------------------------------------------
(* The sender against arbitrary traffic on its socket: acknowledgments of
   numbers it has and has not sent, arriving once or again, early or late,
   and datagrams that are no acknowledgment.  Reliability stays enabled, as
   the application sets it. *)

SenderInbox ==
    {Datagram("object", AckToJson(v), "peer") : v \in 1 .. (MaxSends + 1)}
    \cup {Datagram("object", TelemetryToJson(SampleAt(0)), "peer")}

SenderBatches == Batches(SenderInbox)

\* readyRead of the sender's socket with datagrams of any origin pending
TxForeignReadyRead ==
    \E pending \in SenderBatches :
        /\ hist.acksIn + Len(pending) <= MaxAcksIn
        /\ ProcessIncomingAcks(pending)
        /\ UNCHANGED netToTx

NextSend ==
    \/ SessionSend
    \/ NoAckTimeoutTimer
    \/ TxForeignReadyRead

SpecSend == Init /\ [][NextSend]_vars

----------------------------------------------------------------------------
(* The sender on a socket whose writes can fail, with no ACK coming back:
   every writeDatagram, of a first send or of a retransmission, succeeds or
   returns -1 *)

RetrySend == \E sendOk \in BOOLEAN : SendTelemetryData(SampleAt(hist.sends), sendOk)

NextRetry ==
    \/ RetrySend
    \/ TimeoutTimer

SpecRetry == Init /\ [][NextRetry]_vars

----------------------------------------------------------------------------
(* The listening receiver with datagrams of any origin queued in its socket:
   netToRx is the queue, and readyRead takes some of it in some order *)

QueueDatagrams ==
    {Datagram("object",
              [seq |-> v, latitude |-> R(10 + v), longitude |-> R(20), speed |-> R(30),
               status |-> "OK", needsAck |-> FALSE], "foreign") : v \in {1, 2}}
    \cup ForeignNeedsAck \cup ForeignOther

\* a datagram reaches the receiver's socket
ArriveAtReceiver ==
    /\ Cardinality(netToRx) + hist.datagramsIn < MaxDatagrams
    /\ \E d \in QueueDatagrams \ netToRx : netToRx' = netToRx \cup {d}
    /\ lastOp' = "arrive"
    /\ UNCHANGED <<rx, tx, netToTx, rxEmitted, txEmitted, hist>>

NextQueue ==
    \/ ArriveAtReceiver
    \/ RxReadyRead
    \/ CheckForMissingPackets

SpecQueue == InitPerfect /\ [][NextQueue]_vars

-----------------------------------------------------------------------------
(* The listening receiver's socket as the queue it is: the k-th datagram to
   arrive carries k as its latitude, with any sequence number, and readyRead
   takes everything that is pending, oldest first. *)

ArrivalIndex(d) == d.obj.latitude[1]

\* the pending datagrams in the order they arrived
RECURSIVE QueueOrder(_)
QueueOrder(S) ==
    IF S = {} THEN <<>>
    ELSE LET d == CHOOSE x \in S : \A y \in S : ArrivalIndex(x) <= ArrivalIndex(y)
         IN  <<d>> \o QueueOrder(S \ {d})

ArriveInOrder ==
    LET k == hist.datagramsIn + Cardinality(netToRx) + 1
    IN  /\ k <= MaxDatagrams
        /\ \E v \in 1 .. (MaxWireSeq + 1) :
              netToRx' = netToRx \cup
                  {Datagram("object",
                            [seq |-> v, latitude |-> R(k), longitude |-> R(20),
                             speed |-> R(30), status |-> "OK", needsAck |-> FALSE],
                            "foreign")}
        /\ lastOp' = "arrive"
        /\ UNCHANGED <<rx, tx, netToTx, rxEmitted, txEmitted, hist>>

\* readyRead: while (m_socket->hasPendingDatagrams())
ReadQueue ==
    /\ netToRx # {}
    /\ ProcessPendingDatagrams(QueueOrder(netToRx), TRUE)
    /\ netToRx' = {}

NextOrder ==
    \/ ArriveInOrder
    \/ ReadQueue
    \/ CheckForMissingPackets
    \/ CleanupOldPackets

SpecOrder == InitPerfect /\ [][NextOrder]_vars

-----------------------------------------------------------------------------
(* toJson and fromJson of TelemetryPacket and AckPacket on their own: a packet
   with any sequence number is encoded, the document is on the wire in netToRx,
   and is decoded again.  txEmitted holds what went into toJson, rxEmitted what
   came out of fromJson. *)

CodecEvent(name, packet) == [ev |-> name, packet |-> packet]

\* TelemetryPacket::toJson and AckPacket::toJson of a packet of any content
ToJson ==
    /\ \E n \in SeqNums :
          \/ \E needsAck \in BOOLEAN :
                LET p == [DefaultPacket EXCEPT !.sequenceNumber = n, !.needsAck = needsAck]
                IN  /\ txEmitted' = <<CodecEvent("TelemetryPacket", p)>>
                    /\ netToRx' = {Datagram("object", TelemetryToJson(p), "codec")}
          \/ /\ txEmitted' = <<CodecEvent("AckPacket", [sequenceNumber |-> n])>>
             /\ netToRx' = {Datagram("object", AckToJson(n), "codec")}
    /\ rxEmitted' = <<>>
    /\ lastOp' = "toJson"
    /\ UNCHANGED <<rx, tx, netToTx, hist>>

\* the fromJson of the type the document was encoded from
FromJson ==
    /\ lastOp = "toJson"
    /\ \E d \in netToRx :
          rxEmitted' = <<CodecEvent(txEmitted[1].ev,
                                    IF txEmitted[1].ev = "AckPacket"
                                    THEN AckFromJson(d.obj)
                                    ELSE TelemetryFromJson(d.obj))>>
    /\ lastOp' = "fromJson"
    /\ UNCHANGED <<rx, tx, netToRx, netToTx, txEmitted, hist>>

NextCodec == ToJson \/ FromJson

SpecCodec == Init /\ [][NextCodec]_vars

-----------------------------------------------------------------------------
(* The listening receiver on a port that also gets the ACK documents meant for
   a sender: what arrives is telemetry that asks for no ACK, or an ACK. *)

AckInDatagrams ==
    {Datagram("object",
              [seq |-> v, latitude |-> R(10 + v), longitude |-> R(20), speed |-> R(30),
               status |-> "OK", needsAck |-> FALSE], "foreign") : v \in 1 .. MaxWireSeq}
    \cup {Datagram("object", AckToJson(v), "foreign") : v \in 1 .. MaxWireSeq}

ArriveAckOrTelemetry ==
    /\ Cardinality(netToRx) + hist.datagramsIn < MaxDatagrams
    /\ \E d \in AckInDatagrams \ netToRx : netToRx' = netToRx \cup {d}
    /\ lastOp' = "arrive"
    /\ UNCHANGED <<rx, tx, netToTx, rxEmitted, txEmitted, hist>>

NextAckIn ==
    \/ ArriveAckOrTelemetry
    \/ RxReadyRead
    \/ CheckForMissingPackets

SpecAckIn == InitPerfect /\ [][NextAckIn]_vars

-----------------------------------------------------------------------------
(* The sender's two locks, statement by statement, for callers in different
   threads.  Each activity is at one statement: a QMutexLocker constructor
   waits until the mutex is free, the end of its scope releases it.  The loops
   are kept as the number of iterations that take the inner lock: ACK documents
   for a pending number in processIncomingAcks, timed-out packets that are
   retransmitted in checkForTimeouts. *)

\* the first statement of each activity: the lock it takes first
FirstLock(a) == IF a = "processIncomingAcks" THEN "lockSocket" ELSE "lockPending"

\* the iterations a call may have to make
Iterations(a) ==
    CASE a = "sendTelemetryData" -> {0}
      [] a = "processIncomingAcks" -> 0 .. MaxBatch
      [] a = "checkForTimeouts" -> 0 .. MaxSends

\* a thread enters one of the three slots
Call ==
    \E a \in Activities : \E n \in Iterations(a) :
        /\ tx.at[a] = "idle"
        /\ tx' = [tx EXCEPT !.at[a] = FirstLock(a), !.todo[a] = n]
        /\ lastOp' = "call"
        /\ UNCHANGED <<rx, netToRx, netToTx, rxEmitted, txEmitted, hist>>

\* QMutexLocker(&m_pendingLock): lines 330, 392, 408
LockPending ==
    \E a \in Activities :
        /\ tx.at[a] = "lockPending"
        /\ tx.m_pendingLock = "free"
        /\ tx' = [tx EXCEPT !.m_pendingLock = a,
                            !.at[a] = CASE a = "sendTelemetryData" -> "lockSocket"
                                        [] a = "processIncomingAcks" -> "unlockPending"
                                        [] a = "checkForTimeouts" -> "loop"]
        /\ lastOp' = "lock"
        /\ UNCHANGED <<rx, netToRx, netToTx, rxEmitted, txEmitted, hist>>

\* QMutexLocker(&m_socketLock): lines 341, 373, 447
LockSocket ==
    \E a \in Activities :
        /\ tx.at[a] = "lockSocket"
        /\ tx.m_socketLock = "free"
        /\ tx' = [tx EXCEPT !.m_socketLock = a,
                            !.at[a] = IF a = "processIncomingAcks" THEN "loop"
                                      ELSE "unlockSocket"]
        /\ lastOp' = "lock"
        /\ UNCHANGED <<rx, netToRx, netToTx, rxEmitted, txEmitted, hist>>

\* the head of the loop of processIncomingAcks (375) and of checkForTimeouts
\* (419): one more iteration takes the inner lock, none leaves the loop
LoopHead ==
    \E a \in Activities \ {"sendTelemetryData"} :
        /\ tx.at[a] = "loop"
        /\ tx' = [tx EXCEPT !.at[a] =
                      IF tx.todo[a] > 0
                      THEN (IF a = "processIncomingAcks" THEN "lockPending" ELSE "lockSocket")
                      ELSE (IF a = "processIncomingAcks" THEN "unlockSocket" ELSE "unlockPending")]
        /\ lastOp' = "loop"
        /\ UNCHANGED <<rx, netToRx, netToTx, rxEmitted, txEmitted, hist>>

\* the end of the scope of a locker of m_socketLock: lines 356 (or the return
\* at 354), 404, 459
UnlockSocket ==
    \E a \in Activities :
        /\ tx.at[a] = "unlockSocket"
        /\ tx.m_socketLock = a
        /\ tx' = [tx EXCEPT !.m_socketLock = "free",
                            !.at[a] = CASE a = "sendTelemetryData" -> "unlockPending"
                                        [] a = "processIncomingAcks" -> "idle"
                                        [] a = "checkForTimeouts" -> "loop",
                            !.todo[a] = IF a = "checkForTimeouts" THEN @ - 1 ELSE @]
        /\ lastOp' = "unlock"
        /\ UNCHANGED <<rx, netToRx, netToTx, rxEmitted, txEmitted, hist>>

\* the end of the scope of a locker of m_pendingLock: lines 369, 399, 432
UnlockPending ==
    \E a \in Activities :
        /\ tx.at[a] = "unlockPending"
        /\ tx.m_pendingLock = a
        /\ tx' = [tx EXCEPT !.m_pendingLock = "free",
                            !.at[a] = IF a = "processIncomingAcks" THEN "loop" ELSE "idle",
                            !.todo[a] = IF a = "processIncomingAcks" THEN @ - 1 ELSE @]
        /\ lastOp' = "unlock"
        /\ UNCHANGED <<rx, netToRx, netToTx, rxEmitted, txEmitted, hist>>

NextLocks ==
    Call \/ LockPending \/ LockSocket \/ LoopHead \/ UnlockSocket \/ UnlockPending

SpecLocks == Init /\ [][NextLocks]_vars

----------------------------------------------------------------------------
(* The receiver against arbitrary traffic on its port *)

\* readyRead with datagrams of any origin pending
RxForeignReadyRead ==
    \E pending \in ForeignBatchesUpTo[Min(MaxBatch, MaxDatagrams - hist.datagramsIn)] :
      \E ackOk \in AckOutcomes(pending) :
        /\ hist.datagramsIn + Len(pending) <= MaxDatagrams
        /\ ProcessPendingDatagrams(pending, ackOk)
        /\ UNCHANGED netToRx

NextRecv ==
    \/ RxForeignReadyRead
    \/ Start
    \/ StopListening
    \/ CheckForMissingPackets
    \/ CleanupOldPackets
    \/ SetInterpolation

SpecRecv == Init /\ [][NextRecv]_vars

----------------------------------------------------------------------------
(* Unit runs: one method of the receiver on fields drawn from bounded sets *)

\* the packet a unit run finds under key k
PacketAt(k) ==
    [DefaultPacket EXCEPT !.sequenceNumber = k, !.latitude = R(k * k),
                          !.longitude = R(3 * k + 1), !.speed = R(100 - k),
                          !.status = "OK"]

BufferOf(keys) == [k \in keys |-> PacketAt(k)]

\* the snapshot a unit run finds in m_lastValidPacket
SnapshotAt(k) ==
    [DefaultPacket EXCEPT !.sequenceNumber = k, !.latitude = R(7),
                          !.longitude = R(8), !.speed = R(9), !.status = "OK"]

\* the subsets of S with at most n elements
RECURSIVE SubsetsUpTo(_, _)
SubsetsUpTo(S, n) ==
    IF n = 0 THEN {{}}
    ELSE LET smaller == SubsetsUpTo(S, n - 1)
         IN  smaller \cup {K \cup {x} : K \in smaller, x \in S}
SmallSubsets(S) == SubsetsUpTo(S, MaxBuffered)

\* keys of the buffer relative to m_expectedSequenceNumber: inside the range
\* the gap check scans, next to it, and at the edges of the search span
KeyOffsets == {0 - 10, 0 - 9, 0 - 2, 0 - 1, 0, 1, 2, 3, 4, 9, 10, 11, 12}

\* the receiver listening, about to run checkForMissingPackets
InitGap ==
    /\ \E e \in SeqNums, g \in (0 - 1) .. MaxGap, enabled \in BOOLEAN :
         \E keys \in SmallSubsets({U32(e + o) : o \in KeyOffsets}) :
            /\ e + g \in SeqNums
            /\ rx = [RxInit EXCEPT !.m_expectedSequenceNumber = e,
                                   !.m_lastValidSequenceNumber = e + g,
                                   !.m_lastValidPacket = SnapshotAt(e + g),
                                   !.m_receivedPackets = BufferOf(keys),
                                   !.m_interpolationEnabled = enabled,
                                   !.m_isListening = TRUE,
                                   !.m_timeoutTimer = TRUE,
                                   !.m_cleanupTimer = TRUE]
    /\ tx = TxInit
    /\ netToRx = {}
    /\ netToTx = {}
    /\ rxEmitted = <<>>
    /\ txEmitted = <<>>
    /\ lastOp = "constructor"
    /\ hist = HistInit

NextGap == CheckForMissingPackets

SpecGap == InitGap /\ [][NextGap]_vars

\* the receiver listening, with a buffer, about to run cleanupOldPackets
InitCleanup ==
    /\ \E keys \in SmallSubsets(SeqNums) :
            rx = [RxInit EXCEPT !.m_receivedPackets = BufferOf(keys),
                                !.m_isListening = TRUE,
                                !.m_timeoutTimer = TRUE,
                                !.m_cleanupTimer = TRUE]
    /\ tx = TxInit
    /\ netToRx = {}
    /\ netToTx = {}
    /\ rxEmitted = <<>>
    /\ txEmitted = <<>>
    /\ lastOp = "constructor"
    /\ hist = HistInit

SetBufferSize == \E size \in 0 .. MaxBufferCfg : SetMaxBufferSize(size)

NextCleanup ==
    \/ SetBufferSize
    \/ CleanupOldPackets

SpecCleanup == InitCleanup /\ [][NextCleanup]_vars

----------------------------------------------------------------------------
(* Claims *)

\* the packets of the telemetryDataReceived signals of the last slot, in order
RxDelivered ==
    LET ev == EmittedPackets(rxEmitted)
    IN  [i \in 1 .. Len(ev) |-> ev[i].packet]

\* C3: once packets a and b > a + 1 have been received and nothing in between,
\* a run of checkForMissingPackets has declared every sequence number strictly
\* between them lost (and emitted a substitute for it).
C3_GapBetweenReceivedIsDeclaredLost ==
    lastOp = "checkForMissingPackets" =>
        \A a \in hist.seen : \A b \in hist.seen :
            \A s \in (a + 1) .. (b - 1) :
                s \notin hist.seen => s \in hist.lost

\* C1, refuted: over the loss-free transport no packetTimeout is ever emitted.
C1_NoTimeoutOnPerfectTransport == hist.timedOut = EmptyBag

BagCount(b, k) == IF k \in DOMAIN b THEN b[k] ELSE 0

\* what C2 says of the sequence number s in one state
NoAckCourse(s) ==
    /\ BagCount(hist.retx, s) <= MaxRetransmissions
    /\ BagCount(hist.timedOut, s) <= 1
    /\ (s \in DOMAIN tx.m_pendingAcks) <=> (BagCount(hist.timedOut, s) = 0)
    /\ BagCount(hist.timedOut, s) = 1 => BagCount(hist.retx, s) = MaxRetransmissions
    /\ s \in DOMAIN tx.m_pendingAcks =>
            /\ tx.m_pendingAcks[s].packet.sequenceNumber = s
            /\ tx.m_pendingAcks[s].retransmissionCount = BagCount(hist.retx, s)

GivenUp(s) == BagCount(hist.timedOut, s) = 1 /\ s \notin DOMAIN tx.m_pendingAcks

\* C2: with no ACK arriving, every packet sent with reliability enabled is
\* retransmitted m_maxRetransmissions times under its own sequence number, and
\* only then is its entry removed and packetTimeout emitted for it, once ;
\* nothing else is ever retransmitted or timed out.
C2_RetransmittedThenTimedOutOnce ==
    /\ [](/\ \A s \in hist.pended : NoAckCourse(s)
          /\ DOMAIN hist.retx \subseteq hist.pended
          /\ DOMAIN hist.timedOut \subseteq hist.pended
          /\ hist.pended \subseteq SeqNums)
    /\ <>[](\A s \in hist.pended : GivenUp(s))

\* C2 witness: a packet has been given up after its last retransmission while
\* a later one is still pending with retransmissions behind it.
C2_Witness ==
    /\ lastOp = "checkForTimeouts"
    /\ \E s \in hist.pended :
          /\ GivenUp(s)
          /\ BagCount(hist.retx, s) = MaxRetransmissions
    /\ \E s \in DOMAIN tx.m_pendingAcks : tx.m_pendingAcks[s].retransmissionCount > 0

\* the sequence numbers one run of checkForMissingPackets has to report
Missing(r) ==
    {s \in r.m_expectedSequenceNumber .. (r.m_lastValidSequenceNumber - 1) :
        s \notin DOMAIN r.m_receivedPackets}

SetMax(S) == CHOOSE x \in S : \A y \in S : y <= x
SetMin(S) == CHOOSE x \in S : \A y \in S : x <= y

DeliveredIn(out) ==
    LET ev == EmittedPackets(out)
    IN  [i \in 1 .. Len(ev) |-> ev[i].packet]

\* C4: one run of checkForMissingPackets adds one to m_packetsLost and emits
\* exactly one substitute carrying s for every s of [expected, lastValid) that
\* is not in the buffer, leaves m_expectedSequenceNumber one past the last of
\* them, and so leaves none of them to be reported by a later run.
C4_EachMissingReportedOnce ==
    [][ lastOp' = "checkForMissingPackets" =>
          LET M == Missing(rx)
              subs == DeliveredIn(rxEmitted')
          IN  /\ rx'.m_packetsLost = I32(rx.m_packetsLost + Cardinality(M))
              /\ Len(subs) = Cardinality(M)
              /\ \A s \in M :
                    Cardinality({i \in 1 .. Len(subs) : subs[i].sequenceNumber = s}) = 1
              /\ rx'.m_expectedSequenceNumber =
                    IF M = {} THEN rx.m_expectedSequenceNumber ELSE SetMax(M) + 1
              /\ Missing(rx') \cap M = {} ]_vars

\* C4 witness: a gap check has reported two sequence numbers with a buffered
\* one between them.
C4_Witness ==
    /\ lastOp = "checkForMissingPackets"
    /\ Len(RxDelivered) >= 2
    /\ \E k \in DOMAIN rx.m_receivedPackets :
          /\ RxDelivered[1].sequenceNumber < k
          /\ k < RxDelivered[Len(RxDelivered)].sequenceNumber

\* the buffered sequence numbers at distance 1 .. 9 below and above t
BufferedBelow(t) ==
    {k \in DOMAIN rx.m_receivedPackets : k >= 1 /\ t - 9 <= k /\ k <= t - 1}
BufferedAbove(t) ==
    {k \in DOMAIN rx.m_receivedPackets : t + 1 <= k /\ k <= t + 9}

\* before + ((t - b) / (a - b)) * (after - before)
Blend(before, after, t, b, a) ==
    RAdd(before, RMul(RNorm(t - b, a - b), RSub(after, before)))

SamePosition(p, q) ==
    /\ p.latitude = q.latitude
    /\ p.longitude = q.longitude
    /\ p.speed = q.speed

C9_EvictsSmallestKeys ==
    [][ lastOp' = "cleanupOldPackets" =>
          LET old == rx.m_receivedPackets
              new == rx'.m_receivedPackets
              n == Cardinality(DOMAIN old)
              m == rx.m_maxBufferSize
              largest == {k \in DOMAIN old :
                             Cardinality({j \in DOMAIN old : j > k}) < m}
          IN  IF n > m
              THEN /\ DOMAIN new = largest
                   /\ Cardinality((DOMAIN old) \ (DOMAIN new)) = n - m
                   /\ \A k \in DOMAIN new : new[k] = old[k]
              ELSE new = old ]_vars

\* C9 witness: a cleanup has evicted a key and kept a larger one.
C9_Witness ==
    /\ lastOp = "cleanupOldPackets"
    /\ hist.evicted # {}
    /\ rx.m_receivedPackets # EmptyObject
    /\ \A e \in hist.evicted : \A k \in DOMAIN rx.m_receivedPackets : e < k

\* C5: no step lowers m_lastValidSequenceNumber or m_expectedSequenceNumber, and
\* a receipt of packets whose sequence numbers are all at most one accepted
\* before leaves both as they were.
C5_WatermarksNeverRegress ==
    [][ /\ rx'.m_lastValidSequenceNumber >= rx.m_lastValidSequenceNumber
        /\ rx'.m_expectedSequenceNumber >= rx.m_expectedSequenceNumber
        /\ ( /\ lastOp' = "processPendingDatagrams"
             /\ hist.seen # {}
             /\ \A s \in hist'.seen \ hist.seen : \E old \in hist.seen : s <= old
             /\ \A i \in 1 .. Len(rxEmitted') :
                   rxEmitted'[i].ev = "telemetryDataReceived" =>
                       \E old \in hist.seen : rxEmitted'[i].packet.sequenceNumber <= old )
           => /\ rx'.m_lastValidSequenceNumber = rx.m_lastValidSequenceNumber
              /\ rx'.m_expectedSequenceNumber = rx.m_expectedSequenceNumber ]_vars

\* C6: m_packetsReceived is the number of telemetry datagrams handed to
\* processReceivedPacket so far, duplicates included; nothing else counts.
C6_ReceivedCountsHandedDatagrams ==
    /\ rx.m_packetsReceived = hist.handed
    /\ hist.handed <= hist.datagramsIn

\* C6 witness: a duplicate has been received, and so has a datagram that is no
\* telemetry, and a gap check has run.
C6_Witness ==
    /\ hist.handed >= 2
    /\ hist.handed > Cardinality(hist.seen)
    /\ hist.datagramsIn > hist.handed
    /\ lastOp = "checkForMissingPackets"

\* C10: getPacketLossRate is lost / (received + lost) * 100 whenever the sum is
\* positive, 0 when both counters are 0, and always within 0 .. 100.
C10_LossRateIsAPercentage ==
    LET received == rx.m_packetsReceived
        lost == rx.m_packetsLost
        rate == GetPacketLossRate(rx)
    IN  /\ received + lost > 0 => rate = RNorm(lost * 100, received + lost)
        /\ (received = 0 /\ lost = 0) => rate = R(0)
        /\ RLeq(R(0), rate)
        /\ RLeq(rate, R(100))

DataEvents(out) ==
    {i \in 1 .. Len(out) : out[i].ev \in {"telemetryDataReceived", "statisticsUpdated"}}

\* C11: while the receiver is stopped both of its timers are stopped and the
\* last thing it did emitted neither telemetryDataReceived nor
\* statisticsUpdated, whatever is still under way to it.
C11_StoppedReceiverIsSilent ==
    ~rx.m_isListening =>
        /\ ~rx.m_timeoutTimer
        /\ ~rx.m_cleanupTimer
        /\ DataEvents(rxEmitted) = {}

\* C11 witness: the receiver has been stopped after handing packets on, with a
\* datagram still under way to it.
C11_Witness ==
    /\ lastOp = "stopListening"
    /\ ~rx.m_isListening
    /\ rxEmitted = <<StatusEvent(FALSE)>>
    /\ hist.handed > 0
    /\ netToRx # {}

\* C12: every call of sendTelemetryData stamps a sequence number larger than
\* all earlier ones (the counter only grows), whether or not the datagram was
\* written ; a datagram that was written carries the number stamped.
C12_StampedNumbersIncrease ==
    [][ lastOp' = "sendTelemetryData" =>
          /\ tx'.m_nextSequenceNumber > tx.m_nextSequenceNumber
          /\ \A d \in netToRx' \ netToRx : d.obj.seq = tx.m_nextSequenceNumber ]_vars

\* C13: a sendTelemetryData whose datagram the transport rejects leaves
\* m_pendingAcks as it was ; one whose datagram is written with reliability
\* enabled adds exactly the entry for the stamped number, with
\* retransmissionCount 0 ; and only numbers that got an entry are ever
\* retransmitted or reported by packetTimeout.
C13_RejectedSendIsNotTracked ==
    /\ [][ lastOp' = "sendTelemetryData" =>
            LET s == tx.m_nextSequenceNumber
                written == netToRx' # netToRx
            IN  /\ ~written => tx'.m_pendingAcks = tx.m_pendingAcks
                /\ (written /\ tx.m_reliabilityEnabled) =>
                      /\ DOMAIN tx'.m_pendingAcks = (DOMAIN tx.m_pendingAcks) \cup {s}
                      /\ tx'.m_pendingAcks[s].retransmissionCount = 0
                      /\ tx'.m_pendingAcks[s].packet.sequenceNumber = s
                      /\ \A k \in DOMAIN tx.m_pendingAcks :
                            tx'.m_pendingAcks[k] = tx.m_pendingAcks[k] ]_vars
    /\ [](/\ DOMAIN hist.retxTried \subseteq hist.pended
          /\ DOMAIN hist.timedOut \subseteq hist.pended)

\* C13 witness: of two sends one was written and tracked until its timeout,
\* the other was rejected with reliability enabled and left no entry.
C13_Witness ==
    /\ hist.sends = 2
    /\ tx.m_packetsSent = 1
    /\ hist.pended = {1}
    /\ hist.timedOut # EmptyBag
    /\ lastOp = "sendTelemetryData"
    /\ tx.m_reliabilityEnabled
    /\ netToRx # {}

\* C14: processIncomingAcks removes from m_pendingAcks exactly the entries
\* whose numbers the ACK documents it read name, and leaves every other entry
\* as it was ; ACKs that name no pending number change nothing.
C14_AckRemovesOnlyItsEntry ==
    [][ lastOp' = "processIncomingAcks" =>
          LET named == hist'.lastAcks
              old == tx.m_pendingAcks
              new == tx'.m_pendingAcks
          IN  /\ DOMAIN new = (DOMAIN old) \ named
              /\ \A k \in DOMAIN new : new[k] = old[k]
              /\ (named \cap DOMAIN old = {}) => new = old ]_vars

\* C14 witness: one read held an ACK for a pending number and an ACK for a
\* number never sent ; the first entry is gone, another is still pending.
C14_Witness ==
    /\ lastOp = "processIncomingAcks"
    /\ \E s \in hist.lastAcks : s \in DOMAIN hist.acked /\ AckEvent(s) \in Range(txEmitted)
    /\ \E u \in hist.lastAcks : u \notin hist.pended
    /\ tx.m_pendingAcks # EmptyObject

\* C15: for every sequence number packetTimeout is emitted at most once,
\* ackReceived at most once, and never both ; once packetTimeout was emitted for
\* a number, no step retransmits it or reports an ACK for it.
C15_OneVerdictPerNumber ==
    /\ [](\A s \in SeqNums :
            BagCount(hist.timedOut, s) + BagCount(hist.acked, s) <= 1)
    /\ [][ \A s \in DOMAIN hist.timedOut :
             /\ BagCount(hist'.retxTried, s) = BagCount(hist.retxTried, s)
             /\ BagCount(hist'.acked, s) = 0
             /\ s \notin DOMAIN tx'.m_pendingAcks ]_vars

\* C15 witness: an ACK for a number already reported by packetTimeout has
\* been read, without effect, while another number was acknowledged in time.
C15_Witness ==
    /\ lastOp = "processIncomingAcks"
    /\ \E s \in hist.lastAcks :
          /\ s \in DOMAIN hist.timedOut
          /\ AckEvent(s) \notin Range(txEmitted)
    /\ hist.acked # EmptyBag

\* C16, refuted: a run of processPendingDatagrams writes one ACK with the
\* datagram's seq for every telemetry datagram it read that asks for one,
\* counts it in m_acksSent, and returns (every write succeeding).
C16_EveryNeedsAckIsAcked ==
    [][ lastOp' = "processPendingDatagrams" =>
          LET read == netToRx \ netToRx'
              asking == {d \in read : d.obj.needsAck}
          IN  /\ \A d \in asking :
                    \E a \in netToTx' \ netToTx : a.obj = AckToJson(d.obj.seq)
              /\ rx'.m_acksSent = rx.m_acksSent + Cardinality(asking) ]_vars

\* a queued datagram by what it is on the wire
IsGarbage(d) == d.kind = "garbage"
IsAckOnWire(d) == d.kind = "object" /\ "type" \in DOMAIN d.obj /\ d.obj.type = "ACK"
IsTelemetryOnWire(d) ==
    /\ d.kind = "object"
    /\ ~IsAckOnWire(d)
    /\ {"seq", "latitude", "longitude", "speed", "status", "needsAck"} \subseteq DOMAIN d.obj

TelemetrySeqs(out) ==
    {out[i].packet.sequenceNumber : i \in {j \in 1 .. Len(out) :
                                              out[j].ev = "telemetryDataReceived"}}

CountEvents(out, name) == Cardinality({i \in 1 .. Len(out) : out[i].ev = name})

\* the receiver's data: buffer, sequencing state and counters
RxData(r) ==
    <<r.m_receivedPackets, r.m_expectedSequenceNumber, r.m_lastValidSequenceNumber,
      r.m_lastValidPacket, r.m_packetsReceived, r.m_packetsLost,
      r.m_packetsInterpolated, r.m_acksSent>>

\* C17: a read of undecodable datagrams only delivers nothing, writes nothing
\* and leaves the receiver's data as it was ; in a read that mixes them with
\* telemetry that asks for no ACK, every telemetry datagram is delivered and
\* counted, as if the undecodable ones were not there.
C17_UndecodableIsDiscarded ==
    [][ lastOp' = "processPendingDatagrams" =>
          LET read == netToRx \ netToRx'
              bad == {d \in read : IsGarbage(d)}
              good == {d \in read : IsTelemetryOnWire(d)}
          IN  /\ read = bad =>
                    /\ rxEmitted' = <<>>
                    /\ RxData(rx') = RxData(rx)
                    /\ netToTx' = netToTx
              /\ (read = bad \cup good /\ \A d \in good : ~d.obj.needsAck) =>
                    /\ CountEvents(rxEmitted', "telemetryDataReceived") = Cardinality(good)
                    /\ TelemetrySeqs(rxEmitted') = {d.obj.seq : d \in good}
                    /\ rx'.m_packetsReceived = rx.m_packetsReceived + Cardinality(good)
                    /\ rx'.pc = "idle" ]_vars

\* C17 witness: of two datagrams read, one was no telemetry and left no
\* trace, and the telemetry datagram read last was delivered.
C17_Witness ==
    /\ lastOp = "processPendingDatagrams"
    /\ hist.datagramsIn = 2
    /\ hist.handed = 1
    /\ netToRx = {}
    /\ rx.m_packetsReceived = 1
    /\ TelemetrySeqs(rxEmitted) = {2}
    /\ rx.pc = "idle"

\* C18, refuted: a read of datagrams that are neither telemetry nor ACK
\* documents (JSON that is no object, an object without the telemetry members)
\* delivers nothing and leaves the receiver's data as it was.
C18_UnrecognizedIsDropped ==
    [][ lastOp' = "processPendingDatagrams" =>
          LET read == netToRx \ netToRx'
          IN  (\A d \in read : ~IsTelemetryOnWire(d) /\ ~IsAckOnWire(d)) =>
                  /\ CountEvents(rxEmitted', "telemetryDataReceived") = 0
                  /\ RxData(rx') = RxData(rx) ]_vars

\* C19, refuted: the datagram handler always returns ; the receiver is never
\* left waiting for m_socketLock inside it.
C19_HandlerAlwaysReturns == rx.pc = "idle" /\ rx.m_socketLock = "free"

\* C20, refuted: sendTelemetryData, processIncomingAcks and checkForTimeouts
\* run concurrently on one sender without deadlock: in no reachable state does
\* one activity hold the pending-ack lock and wait for the socket lock while
\* another holds the socket lock and waits for the pending-ack lock.
C20_NoLockOrderDeadlock ==
    ~ \E a, b \in Activities :
          /\ a # b
          /\ tx.m_pendingLock = a /\ tx.at[a] = "lockSocket"
          /\ tx.m_socketLock = b /\ tx.at[b] = "lockPending"

\* C21: when bind fails, startListening returns false and the receiver stays
\* stopped: m_isListening false, both timers inactive, no
\* connectionStatusChanged emitted ; and a start of a stopped receiver whose
\* bind succeeds, a retry included, leaves it listening.
C21_FailedBindLeavesStopped ==
    [][ (lastOp' = "startListening" /\ ~rx.m_isListening) =>
          \/ /\ StartListening(FALSE)
             /\ ~StartListeningReturns(rx, FALSE)
             /\ ~rx'.m_isListening
             /\ ~rx'.m_timeoutTimer
             /\ ~rx'.m_cleanupTimer
             /\ CountEvents(rxEmitted', "connectionStatusChanged") = 0
          \/ /\ StartListening(TRUE)
             /\ StartListeningReturns(rx, TRUE)
             /\ rx'.m_isListening ]_vars

\* C21 witness: a receiver that has read datagrams and was stopped has just
\* tried to start again and failed to bind.
C21_Witness ==
    /\ lastOp = "startListening"
    /\ ~rx.m_isListening
    /\ hist.datagramsIn > 0
    /\ rxEmitted = <<>>

\* C22: a read hands the consumer every telemetry packet it takes from the
\* socket exactly once and in the order the datagrams arrived, whatever their
\* sequence numbers: none is held back, dropped or moved.
C22_DeliveredInArrivalOrder ==
    [][ lastOp' = "processPendingDatagrams" =>
          LET q == QueueOrder(netToRx \ netToRx')
          IN  /\ EmittedPackets(rxEmitted') =
                     [i \in 1 .. Len(q) |-> TelemetryEvent(TelemetryFromJson(q[i].obj))]
              /\ hist'.handed = hist.handed + Len(q) ]_vars

\* C22 witness: one read delivered sequence number 2 and then sequence
\* number 1, as they had arrived.
C22_Witness ==
    /\ lastOp = "processPendingDatagrams"
    /\ Len(EmittedPackets(rxEmitted)) = 2
    /\ EmittedPackets(rxEmitted)[1].packet.sequenceNumber = 2
    /\ EmittedPackets(rxEmitted)[2].packet.sequenceNumber = 1
    /\ ArrivalIndex([obj |-> EmittedPackets(rxEmitted)[1].packet]) <
           ArrivalIndex([obj |-> EmittedPackets(rxEmitted)[2].packet])

\* C23, refuted: a datagram that repeats a sequence number the receiver has
\* already handed to the consumer (a retransmission whose ACK was lost, a
\* duplicate made by the network) is not handed to the consumer again.
C23_DuplicateIsNotANewSample ==
    [][ lastOp' = "processPendingDatagrams" =>
          LET out == EmittedPackets(rxEmitted')
          IN  /\ \A i \in 1 .. Len(out) : out[i].packet.sequenceNumber \notin hist.seen
              /\ \A i, j \in 1 .. Len(out) :
                    out[i].packet.sequenceNumber = out[j].packet.sequenceNumber => i = j ]_vars

\* C24, refuted: no step lowers one of the receiver's counters m_packetsReceived,
\* m_packetsLost, m_packetsInterpolated, m_acksSent or of the sender's counters
\* m_packetsSent, m_acksReceived, m_retransmissions.
C24_CountersNeverDecrease ==
    [][ /\ rx'.m_packetsReceived >= rx.m_packetsReceived
        /\ rx'.m_packetsLost >= rx.m_packetsLost
        /\ rx'.m_packetsInterpolated >= rx.m_packetsInterpolated
        /\ rx'.m_acksSent >= rx.m_acksSent
        /\ tx'.m_packetsSent >= tx.m_packetsSent
        /\ tx'.m_acksReceived >= tx.m_acksReceived
        /\ tx'.m_retransmissions >= tx.m_retransmissions ]_vars

\* C25, refuted: fromJson(toJson(p)) has the sequence number of p, for a
\* TelemetryPacket and for an AckPacket with any quint32 sequence number, and the
\* needsAck of p ; an encoded AckPacket is an ACK document and an encoded
\* TelemetryPacket is none.
C25_RoundTripKeepsSequenceNumber ==
    /\ lastOp \in {"toJson", "fromJson"} =>
          \A d \in netToRx : IsAckDocument(d.obj) <=> txEmitted[1].ev = "AckPacket"
    /\ lastOp = "fromJson" =>
          /\ rxEmitted[1].packet.sequenceNumber = txEmitted[1].packet.sequenceNumber
          /\ txEmitted[1].ev = "TelemetryPacket" =>
                rxEmitted[1].packet.needsAck = txEmitted[1].packet.needsAck

\* C26, refuted: once a read has handed a packet with sequence number n to
\* sequence processing, m_receivedPackets has an entry for n that holds the
\* packet last received with that number.
C26_ReceivedPacketIsBuffered ==
    [][ lastOp' = "processPendingDatagrams" =>
          LET out == EmittedPackets(rxEmitted')
          IN  \A i \in 1 .. Len(out) :
                LET n == out[i].packet.sequenceNumber
                    last == SetMax({j \in 1 .. Len(out) : out[j].packet.sequenceNumber = n})
                IN  /\ n \in DOMAIN rx'.m_receivedPackets
                    /\ rx'.m_receivedPackets[n] = out[last].packet ]_vars

\* C27, refuted: every call of sendTelemetryData raises m_packetsSent by one,
\* whether writeDatagram accepted the datagram or not, so that m_packetsSent is
\* the number of calls.
C27_EverySendIsCounted ==
    [][ lastOp' = "sendTelemetryData" /\ hist'.sends = hist.sends + 1 =>
          /\ tx'.m_packetsSent = tx.m_packetsSent + 1
          /\ tx'.m_packetsSent = hist'.sends ]_vars

\* C28: a packet sent while m_reliabilityEnabled is false goes out with
\* needsAck false and adds no entry to m_pendingAcks ; and as long as every
\* packet of the session was sent that way, m_pendingAcks is empty, nothing has
\* been retransmitted and no packetTimeout has been emitted.
C28_UnreliableSendIsNotTracked ==
    [][ /\ (lastOp' = "sendTelemetryData" /\ hist'.sends = hist.sends + 1
            /\ ~tx.m_reliabilityEnabled) =>
              /\ \A d \in netToRx' \ netToRx : ~d.obj.needsAck
              /\ tx'.m_pendingAcks = tx.m_pendingAcks
        /\ ~hist'.sentReliably =>
              /\ tx'.m_pendingAcks = EmptyObject
              /\ tx'.m_retransmissions = 0
              /\ hist'.retxTried = EmptyBag
              /\ hist'.timedOut = EmptyBag
              /\ CountEvents(txEmitted', "packetTimeout") = 0 ]_vars

\* C28 witness: both packets of the session went out with reliability
\* disabled, and the timeout check has run since.
C28_Witness ==
    /\ hist.sends = 2
    /\ ~hist.sentReliably
    /\ Cardinality(netToRx) = 2
    /\ \A d \in netToRx : ~d.obj.needsAck
    /\ lastOp = "checkForTimeouts"

\* C29: the ACK documents a read takes from the socket cause no
\* telemetryDataReceived, no ACK in reply and no change of the receiver's
\* buffer, sequencing state and counters: the read emits and counts exactly
\* the telemetry datagrams it took, and a read of ACK documents only leaves
\* everything as it was.
C29_AckDocumentIsIgnored ==
    [][ lastOp' = "processPendingDatagrams" =>
          LET read == netToRx \ netToRx'
              acks == {d \in read : IsAckOnWire(d)}
          IN  /\ netToTx' = netToTx
              /\ rx'.m_acksSent = rx.m_acksSent
              /\ CountEvents(rxEmitted', "telemetryDataReceived") =
                     Cardinality(read \ acks)
              /\ TelemetrySeqs(rxEmitted') = {d.obj.seq : d \in read \ acks}
              /\ rx'.m_packetsReceived = rx.m_packetsReceived + Cardinality(read \ acks)
              /\ read = acks => (rxEmitted' = <<>> /\ RxData(rx') = RxData(rx)) ]_vars

\* C29 witness: a read has taken ACK documents only, after a telemetry packet
\* had been delivered.
C29_Witness ==
    /\ lastOp = "processPendingDatagrams"
    /\ rxEmitted = <<>>
    /\ hist.handed = 1
    /\ hist.datagramsIn = 3
    /\ netToRx = {}

C31_SubstituteByMode ==
    [][ lastOp' = "checkForMissingPackets" =>
          LET subs == DeliveredIn(rxEmitted')
          IN  /\ \A i \in 1 .. Len(subs) : subs[i].sequenceNumber \in Missing(rx)
              /\ rx'.m_packetsLost = I32(rx.m_packetsLost + Len(subs))
              /\ IF rx.m_interpolationEnabled
                 THEN /\ \A i \in 1 .. Len(subs) : subs[i].status = "INTERPOLATED"
                      /\ rx'.m_packetsInterpolated =
                             I32(rx.m_packetsInterpolated + Len(subs))
                 ELSE /\ \A i \in 1 .. Len(subs) :
                            subs[i] = [rx.m_lastValidPacket EXCEPT
                                          !.sequenceNumber = subs[i].sequenceNumber]
                      /\ rx'.m_packetsInterpolated = rx.m_packetsInterpolated ]_vars

\* C31 witness: a gap check with interpolation disabled has emitted two copies
\* of m_lastValidPacket and counted two losses and no interpolation.
C31_Witness ==
    /\ lastOp = "checkForMissingPackets"
    /\ ~rx.m_interpolationEnabled
    /\ Len(RxDelivered) = 2
    /\ \A i \in 1 .. 2 : RxDelivered[i].status = rx.m_lastValidPacket.status
    /\ rx.m_packetsLost = 2
    /\ rx.m_packetsInterpolated = 0

\* the connectionStatusChanged events among the signals `out`
StatusEvents(out) == SelectSeq(out, LAMBDA e : e.ev = "connectionStatusChanged")

\* the slots and methods of the receiver, as lastOp names them
ReceiverOps ==
    {"startListening", "stopListening", "processPendingDatagrams",
     "checkForMissingPackets", "cleanupOldPackets", "setInterpolationEnabled",
     "setMaxBufferSize"}

\* C32: a start of a stopped receiver either fails and changes nothing or sets
\* m_isListening, starts both timers and emits connectionStatusChanged(true) ;
\* a start of a listening receiver changes and emits nothing ; a stop of a
\* listening receiver clears m_isListening, stops both timers and emits
\* connectionStatusChanged(false) ; a stop of a stopped receiver changes and
\* emits nothing ; and in every step m_isListening changes exactly when one
\* connectionStatusChanged is emitted, which carries the new value, so that
\* the events alternate and m_isListening is the value last emitted.
C32_LifecycleAlternates ==
    [][ /\ lastOp' \in ReceiverOps =>
              StatusEvents(rxEmitted') =
                  IF rx'.m_isListening # rx.m_isListening
                  THEN <<StatusEvent(rx'.m_isListening)>> ELSE <<>>
        /\ lastOp' \notin ReceiverOps => (rx' = rx /\ rxEmitted' = rxEmitted)
        /\ rx'.m_isListening # rx.m_isListening =>
              lastOp' = IF rx'.m_isListening THEN "startListening" ELSE "stopListening"
        /\ (lastOp' = "startListening" /\ rx.m_isListening) =>
              (rx' = rx /\ rxEmitted' = <<>>)
        /\ (lastOp' = "startListening" /\ ~rx.m_isListening) =>
              \/ rx' = rx /\ rxEmitted' = <<>>
              \/ /\ rx' = [rx EXCEPT !.m_isListening = TRUE, !.m_timeoutTimer = TRUE,
                                      !.m_cleanupTimer = TRUE]
                 /\ rxEmitted' = <<StatusEvent(TRUE)>>
        /\ (lastOp' = "stopListening" /\ rx.m_isListening) =>
              /\ rx' = [rx EXCEPT !.m_isListening = FALSE, !.m_timeoutTimer = FALSE,
                                  !.m_cleanupTimer = FALSE]
              /\ rxEmitted' = <<StatusEvent(FALSE)>>
        /\ (lastOp' = "stopListening" /\ ~rx.m_isListening) =>
              (rx' = rx /\ rxEmitted' = <<>>) ]_vars

\* C32 witness: a receiver that has read datagrams and was stopped is
\* listening again and has just reported it.
C32_Witness ==
    /\ lastOp = "startListening"
    /\ rxEmitted = <<StatusEvent(TRUE)>>
    /\ rx.m_isListening
    /\ hist.datagramsIn > 0

\* C33: as long as every sequence number received lies below 2^32 - 1,
\* m_expectedSequenceNumber = m_lastValidSequenceNumber + 1 in every state, so
\* that checkForMissingPackets has nothing to scan and m_packetsLost,
\* m_packetsInterpolated and the loss rate are 0.
C33_ExpectedIsOnePastLastValid ==
    /\ rx.m_expectedSequenceNumber = rx.m_lastValidSequenceNumber + 1
    /\ Missing(rx) = {}
    /\ rx.m_packetsLost = 0
    /\ rx.m_packetsInterpolated = 0
    /\ GetPacketLossRate(rx) = R(0)

\* C33 witness: sequence numbers 1 and 3 have been received, 2 has not, and a
\* gap check has run.
C33_Witness ==
    /\ lastOp = "checkForMissingPackets"
    /\ hist.seen = {1, 3}
    /\ rx.m_packetsReceived = 2
    /\ rx.m_lastValidSequenceNumber = 3

\* C34: with reliability enabled throughout, the packets whose transmit
\* succeeded are as many as the entries of m_pendingAcks, m_acksReceived and
\* the packetTimeout events together ; each of them is pending, acknowledged or
\* timed out and only one of the three ; and m_acksReceived is the number of
\* ackReceived events, each of which removed an entry.
C34_SentIsPendingAckedOrTimedOut ==
    LET pending == DOMAIN tx.m_pendingAcks
        acked == DOMAIN hist.acked
        timedOut == DOMAIN hist.timedOut
    IN  /\ tx.m_reliabilityEnabled /\ (hist.sends > 0 => hist.sentReliably)
        /\ tx.m_packetsSent = Cardinality(hist.pended)
        /\ tx.m_packetsSent =
               Cardinality(pending) + tx.m_acksReceived + BagCardinality(hist.timedOut)
        /\ hist.pended = pending \cup acked \cup timedOut
        /\ pending \cap acked = {} /\ pending \cap timedOut = {} /\ acked \cap timedOut = {}
        /\ tx.m_acksReceived = BagCardinality(hist.acked)
        /\ \A s \in acked : BagCount(hist.acked, s) = 1
        /\ \A s \in timedOut : BagCount(hist.timedOut, s) = 1

\* C34 witness: of two packets sent, one has been acknowledged and the other
\* has timed out.
C34_Witness ==
    /\ tx.m_packetsSent = 2
    /\ tx.m_acksReceived = 1
    /\ BagCardinality(hist.timedOut) = 1
    /\ tx.m_pendingAcks = EmptyObject

\* C35, refuted: checkForMissingPackets emits no substitute for, and counts no
\* loss of, a sequence number that a telemetry packet handed to the consumer
\* has carried, whatever quint32 sequence numbers are received.
C35_ReceivedIsNeverDeclaredLost ==
    [][ lastOp' = "checkForMissingPackets" =>
          LET subs == DeliveredIn(rxEmitted')
          IN  \A i \in 1 .. Len(subs) : subs[i].sequenceNumber \notin hist.seen ]_vars

\* C36, refuted: every entry of m_pendingAcks has a retransmissionCount within
\* 0 .. m_maxRetransmissions, holds the packet whose sequence number is its
\* key, and has a key below m_nextSequenceNumber.
C36_PendingEntriesAreWellFormed ==
    \A k \in DOMAIN tx.m_pendingAcks :
        /\ tx.m_pendingAcks[k].retransmissionCount >= 0
        /\ tx.m_pendingAcks[k].retransmissionCount <= MaxRetransmissions
        /\ tx.m_pendingAcks[k].packet.sequenceNumber = k
        /\ k < tx.m_nextSequenceNumber

\* C37: a retransmission whose write fails still spends an attempt: the entry
\* stays pending with its retransmissionCount one higher and its sentTime
\* refreshed, m_retransmissions grows only by the retransmissions that were
\* written, and packetTimeout comes after m_maxRetransmissions attempts whether
\* they were written or not.
C37_FailedRetransmissionSpendsAnAttempt ==
    [][lastOp' = "checkForTimeouts" =>
          /\ \A s \in DOMAIN tx.m_pendingAcks :
                /\ BagCount(hist'.retxTried, s) > BagCount(hist.retxTried, s) =>
                      /\ s \in DOMAIN tx'.m_pendingAcks
                      /\ tx'.m_pendingAcks[s].retransmissionCount =
                             tx.m_pendingAcks[s].retransmissionCount + 1
                      /\ tx'.m_pendingAcks[s].sentAge = 0
                      /\ BagCount(hist'.retxTried, s) = BagCount(hist.retxTried, s) + 1
                /\ BagCount(hist'.timedOut, s) > BagCount(hist.timedOut, s) =>
                      /\ BagCount(hist.retxTried, s) = MaxRetransmissions
                      /\ BagCount(hist'.retxTried, s) = MaxRetransmissions
                      /\ s \notin DOMAIN tx'.m_pendingAcks
                /\ tx.m_pendingAcks[s].retransmissionCount = BagCount(hist.retxTried, s)
          /\ tx'.m_retransmissions - tx.m_retransmissions =
                 BagCardinality(hist'.retx) - BagCardinality(hist.retx)
          /\ \A s \in DOMAIN hist'.retx :
                 BagCount(hist'.retx, s) <= BagCount(hist'.retxTried, s)]_vars

\* C37 witness: a packet has been given up although none of its
\* m_maxRetransmissions retransmissions was written.
C37_Witness ==
    /\ lastOp = "checkForTimeouts"
    /\ \E s \in hist.pended :
          /\ BagCount(hist.timedOut, s) = 1
          /\ s \notin DOMAIN tx.m_pendingAcks
          /\ BagCount(hist.retxTried, s) = MaxRetransmissions
          /\ BagCount(hist.retx, s) = 0
    /\ tx.m_retransmissions = BagCardinality(hist.retx)
\* the positions in the packets got of those carrying the highest sequence
\* number, when that number is not below floor
AtHighest(got, floor) ==
    {i \in 1 .. Len(got) :
        /\ got[i].sequenceNumber >= floor
        /\ \A j \in 1 .. Len(got) : got[j].sequenceNumber <= got[i].sequenceNumber}

\* C38: m_lastValidPacket.sequenceNumber = m_lastValidSequenceNumber in every
\* state, both 0 before any packet and the highest sequence number received
\* after ; the snapshot is the packet received last among those carrying that
\* number, so a duplicate of the highest number replaces it, and no other
\* operation touches it.
C38_SnapshotIsLatestOfHighest ==
    /\ [](/\ rx.m_lastValidPacket.sequenceNumber = rx.m_lastValidSequenceNumber
          /\ rx.m_lastValidSequenceNumber = SetMax(hist.seen \cup {0})
          /\ hist.seen = {} => rx.m_lastValidPacket = DefaultPacket)
    /\ [][LET got == DeliveredIn(rxEmitted')
              top == AtHighest(got, rx.m_lastValidSequenceNumber)
          IN  IF lastOp' = "processPendingDatagrams" /\ top # {}
              THEN rx'.m_lastValidPacket = got[SetMax(top)]
              ELSE rx'.m_lastValidPacket = rx.m_lastValidPacket]_vars

\* C38 witness: a packet repeating the highest sequence number with another
\* position has been read after the first one and is the snapshot.
C38_Witness ==
    /\ lastOp = "processPendingDatagrams"
    /\ \E i, j \in 1 .. Len(RxDelivered) :
          /\ i < j
          /\ RxDelivered[i].sequenceNumber = RxDelivered[j].sequenceNumber
          /\ RxDelivered[i] # RxDelivered[j]
          /\ rx.m_lastValidPacket = RxDelivered[j]
          /\ rx.m_lastValidPacket # RxDelivered[i]
    /\ rx.m_lastValidSequenceNumber > 0
\* C39, refuted: m_packetsInterpolated <= m_packetsLost in every state ; every
\* step adds as many to m_packetsInterpolated as to m_packetsLost when
\* interpolation is enabled and nothing when it is not ; and every step emits as
\* many telemetryDataReceived signals as it adds to m_packetsReceived and
\* m_packetsLost together, so that the signals emitted are as many as
\* m_packetsReceived + m_packetsLost.
C39_SubstitutesAndSignalsAreCounted ==
    /\ [](rx.m_packetsInterpolated <= rx.m_packetsLost)
    /\ [][LET received == rx'.m_packetsReceived - rx.m_packetsReceived
              lost == rx'.m_packetsLost - rx.m_packetsLost
              interpolated == rx'.m_packetsInterpolated - rx.m_packetsInterpolated
          IN  /\ interpolated = IF rx.m_interpolationEnabled THEN lost ELSE 0
              /\ lastOp' \in ReceiverOps =>
                     Len(EmittedPackets(rxEmitted')) = received + lost
              /\ lastOp' \notin ReceiverOps => received + lost = 0]_vars
====
